---- MODULE Spec2Model ----
(***************************************************************************)
(* A model of the JarvisClaw agent orchestration engine:                   *)
(*   core/task_graph.py   TaskGraph (add_task, get_ready_tasks, ...)       *)
(*   core/executor.py     Executor.execute_graph_generator, execute_graph  *)
(*   core/agent.py        Agent.run (the streaming ReAct loop)             *)
(*   core/memory/episodic_memory.py  EpisodicMemory                        *)
(*   core/planner.py      Planner.create_plan                              *)
(*   core/decision.py     DecisionLayer.decide                             *)
(*   core/llm.py          LLMService.generate                              *)
(*   bot.py               the handlers calling Agent.run and clear         *)
(*                                                                         *)
(* Specifications:                                                         *)
(*   SpecGraph  a client calling the TaskGraph operations in any order     *)
(*   SpecExec   one run of execute_graph_generator over a drawn graph      *)
(*   FairSpecExec  SpecExec with the generator driven to its end           *)
(*   SpecAgent  one turn of Agent.run against a nondeterministic backend   *)
(*   SpecComplete  the TaskGraph client asking is_complete()               *)
(*   SpecPlanner   one call of Planner.create_plan over a drawn response   *)
(*   SpecDecide    one call of DecisionLayer.decide over a drawn response  *)
(*   SpecMem    concurrent callers of one EpisodicMemory on one chat       *)
(*   FairSpecAgent  SpecAgent with the generator driven to its end         *)
(*   SpecTurn   SpecAgent with a caller that may stop and a backend that   *)
(*              may never answer; FairSpecTurn drives it                   *)
(*   SpecLLM    one call of LLMService.generate and its stream consumed    *)
(*   SpecChats  concurrent turns and /clear commands on several chats      *)
(*   SpecMutate    the TaskGraph client making only the writes             *)
(*   SpecExecuteGraph  Executor.execute_graph consuming the generator      *)
(*   SpecBackend   one turn of Agent.run with LLMService.generate between  *)
(*              the Agent and the provider                                 *)
(***************************************************************************)
EXTENDS Integers, Sequences, FiniteSets, TLC

VARIABLES
    \* ---- TaskGraph (core/task_graph.py)
    order,          \* insertion order of the keys of TaskGraph.tasks (a dict)
    tasks,          \* TaskGraph.tasks: id -> Task
    g_last,         \* SpecGraph: the TaskGraph operation called last
    \* ---- Executor.execute_graph_generator (core/executor.py)
    e_pc,           \* position in the generator
    loop_count,     \* loop_count
    ready_tasks,    \* ready_tasks: the list get_ready_tasks() returned
    ri,             \* position of the for loop in ready_tasks
    results,        \* results: dict task_id -> result, as a sequence of pairs
    e_events,       \* the events yielded so far
    \* ---- Agent.run (core/agent.py)
    a_pc,           \* position in the generator
    step,           \* step
    response_content,   \* response_content: the content parts, concatenated
    tool_calls_buffer,  \* tool_calls_buffer
    current_tool_index, \* current_tool_index
    frags,          \* the tool-call fragments received in this response (history)
    nchunks,        \* chunks consumed from the current stream
    ti,             \* position of the for loop in tool_calls_buffer
    messages,       \* the part of `messages` appended in the current iteration
    a_events,       \* the events yielded in the current iteration
    nfinal,         \* number of 'final' events yielded in the turn
    after_final,    \* TRUE once an event was yielded after a 'final'
    ncalls,         \* number of llm.generate calls made in the turn
    result_str,     \* result_str of the tool call being handled
    history,        \* history: what get_history returned at line 58
    \* ---- EpisodicMemory (core/memory/episodic_memory.py)
    sessions,       \* EpisodicMemory.sessions: chat id -> list of messages
    lock,           \* EpisodicMemory.lock: the caller holding it, or 0
    m_pc,           \* SpecMem: per caller, its position in the operation it runs
    m_msg,          \* SpecMem: per caller, the message its add_message appends
    m_ops,          \* SpecMem: the number of operations called so far
    m_returned,     \* SpecMem: the messages of the add_message calls that returned
    m_got,          \* SpecMem: the last get_history return, with m_returned then
    \* ---- DecisionLayer.decide, Planner.create_plan (one call)
    f_pc,           \* "call" before the call, "returned" after it
    f_in,           \* the backend's outcome for the call
    f_out,          \* what the call returned to its caller
    \* ---- concurrent turns and /clear commands on several chats (bot.py)
    turns,          \* SpecChats: per caller, the locals of its Agent.run
    added,          \* SpecChats: per key, the messages added since its last clear
    issued          \* SpecChats: the number of turns and clears started so far

graph_vars == <<order, tasks, g_last>>
exec_vars  == <<e_pc, loop_count, ready_tasks, ri, results, e_events>>
agent_vars == <<a_pc, step, response_content, tool_calls_buffer, current_tool_index,
                frags, nchunks, ti, messages, a_events, nfinal, after_final, ncalls,
                result_str, history>>
mem_vars   == <<sessions>>
conc_vars  == <<lock, m_pc, m_msg, m_ops, m_returned, m_got>>
pure_vars  == <<f_pc, f_in, f_out>>
chat_vars  == <<turns, added, issued>>
vars == <<graph_vars, exec_vars, agent_vars, mem_vars, conc_vars, pure_vars, chat_vars>>

(***************************************************************************)
(* Bounds of the model and constants of the program                        *)
(***************************************************************************)
NGraphIds  == 2     \* SpecGraph: task ids 1..NGraphIds
NExecTasks == 2     \* SpecExec: the small graphs have tasks 1..NExecTasks
ChainExtra == 1     \* SpecExec: the long chain has max_loops + ChainExtra tasks
MaxChunks  == 2     \* SpecAgent: chunks per streamed response
MaxIndex   == 1     \* SpecAgent: tool-call fragments carry an index in 0..MaxIndex
MaxPlan    == 1     \* SpecAgent: tasks in a plan the Planner returns
MaxTokens  == 3     \* SpecPlanner, SpecDecide: tokens of a response's content
MaxElems   == 2     \* SpecPlanner, SpecDecide: elements of a JSON array
NCallers   == 2     \* SpecMem: concurrent callers of EpisodicMemory
MaxOps     == 4     \* SpecMem: operations the callers issue in all

max_loops == 50     \* executor.py: max_loops
max_steps == 30     \* agent.py: max_steps

(***************************************************************************)
(* Values: results, error texts.  str() keeps the payload and makes the    *)
(* value a string; a tool may return a string or another object.           *)
(***************************************************************************)
Val(k, src, id) == [k |-> k, src |-> src, id |-> id]
None == Val("none", "none", 0)
Str(x) == [x EXCEPT !.k = "str"]

RECURSIVE SeqToSet(_)
SeqToSet(s) == IF s = <<>> THEN {} ELSE {Head(s)} \cup SeqToSet(Tail(s))

RECURSIVE SetToSeq(_)
SetToSeq(S) ==
    IF S = {} THEN <<>>
    ELSE LET m == CHOOSE x \in S : \A y \in S : x <= y
         IN  <<m>> \o SetToSeq(S \ {m})

(***************************************************************************)
(* core/task_graph.py                                                      *)
(***************************************************************************)
PENDING   == "pending"
RUNNING   == "running"
COMPLETED == "completed"
FAILED    == "failed"
TaskStatus == {PENDING, RUNNING, COMPLETED, FAILED}

\* Task.__init__
Task(tool, dependencies) ==
    [tool |-> tool, dependencies |-> dependencies, status |-> PENDING,
     result |-> None, error |-> None]

\* TaskGraph.__init__ with no tasks
EmptyGraph == [order |-> <<>>, tasks |-> [k \in {} |-> Task("", <<>>)]]

HasTask(g, id) == id \in DOMAIN g.tasks

\* TaskGraph.add_task: self.tasks[task.id] = task (a dict keeps the position of
\* a key that is already present)
add_task(g, id, task) ==
    [order |-> IF HasTask(g, id) THEN g.order ELSE Append(g.order, id),
     tasks |-> [k \in (DOMAIN g.tasks) \cup {id} |->
                  IF k = id THEN task ELSE g.tasks[k]]]

\* deps_met with `not dep_task or` dropped: an unknown dependency counts as met
RECURSIVE deps_met_unknown_ok(_, _)
deps_met_unknown_ok(g, deps) ==
    IF deps = <<>> THEN TRUE
    ELSE LET dep_id == Head(deps)
         IN  IF HasTask(g, dep_id) /\ g.tasks[dep_id].status # COMPLETED
             THEN FALSE
             ELSE deps_met_unknown_ok(g, Tail(deps))

\* deps_met testing `dep_task.status == PENDING` instead of `!= COMPLETED`:
\* a Running or Failed dependency counts as met
RECURSIVE deps_met_not_pending(_, _)
deps_met_not_pending(g, deps) ==
    IF deps = <<>> THEN TRUE
    ELSE LET dep_id == Head(deps)
         IN  IF ~HasTask(g, dep_id) \/ g.tasks[dep_id].status = PENDING
             THEN FALSE
             ELSE deps_met_not_pending(g, Tail(deps))

\* the inner loop of get_ready_tasks over task.dependencies, with its break
RECURSIVE deps_met(_, _)
deps_met(g, deps) ==
    IF deps = <<>> THEN TRUE
    ELSE LET dep_id == Head(deps)
         IN  IF ~HasTask(g, dep_id) \/ g.tasks[dep_id].status # COMPLETED
             THEN FALSE
             ELSE deps_met(g, Tail(deps))

\* is_ready without the test of lines 45-46: a task of any status whose
\* dependencies are met counts as ready
is_ready_any_status(g, id) == deps_met(g, g.tasks[id].dependencies)

\* TaskGraph.get_ready_tasks: the loop over self.tasks.values() keeps, in dict
\* order, the tasks that are Pending and whose dependencies are met
is_ready(g, id) ==
    IF g.tasks[id].status # PENDING THEN FALSE
    ELSE deps_met(g, g.tasks[id].dependencies)

get_ready_tasks(g) == SelectSeq(g.order, LAMBDA id : is_ready(g, id))

\* mark_completed treating a second completion of a task as its failure
mark_completed_once(g, id, result) ==
    IF ~HasTask(g, id) THEN g
    ELSE IF g.tasks[id].status = COMPLETED
    THEN [g EXCEPT !.tasks[id].status = FAILED]
    ELSE [g EXCEPT !.tasks[id].status = COMPLETED, !.tasks[id].result = result]

\* TaskGraph.mark_completed
mark_completed(g, id, result) ==
    IF HasTask(g, id)
    THEN [g EXCEPT !.tasks[id].status = COMPLETED, !.tasks[id].result = result]
    ELSE g

\* TaskGraph.mark_failed
mark_failed(g, id, error) ==
    IF HasTask(g, id)
    THEN [g EXCEPT !.tasks[id].status = FAILED, !.tasks[id].error = error]
    ELSE g

\* is_complete counting a Failed task as done
is_complete_or_failed(g) ==
    \A id \in DOMAIN g.tasks : g.tasks[id].status \in {COMPLETED, FAILED}

\* TaskGraph.is_complete
is_complete(g) == \A id \in DOMAIN g.tasks : g.tasks[id].status = COMPLETED

\* task.status = TaskStatus.RUNNING (executor.py line 55)
set_running(g, id) == [g EXCEPT !.tasks[id].status = RUNNING]

Graph == [order |-> order, tasks |-> tasks]

\* every task Completed or Failed (executor.py line 47)
all_terminal(g) ==
    \A id \in DOMAIN g.tasks : g.tasks[id].status \in {COMPLETED, FAILED}

\* the sorted lists over the subsets of S: the dependency lists drawn
DepLists(S) == {SetToSeq(D) : D \in SUBSET S}

(***************************************************************************)
(* core/module_manager.py: the registry the Executor and the Agent invoke  *)
(***************************************************************************)
\* The tools of the model: two synchronous functions (one returns a string,
\* one raises), two coroutine functions (one returns an object, one raises),
\* and a name that is not registered.
Tools == {"get_time", "boom", "fetch", "afail", "nope"}
registered == {"get_time", "boom", "fetch", "afail"}
\* tool_metadata.get(name, {}).get("is_async", False)
is_async(tool) == tool \in {"fetch", "afail"}

\* The body of the registered function, run for caller `id`
tool_func(tool, id) ==
    CASE tool = "get_time" -> [raises |-> FALSE, v |-> Val("str", "tool", id)]
      [] tool = "fetch"    -> [raises |-> FALSE, v |-> Val("obj", "tool", id)]
      [] OTHER             -> [raises |-> TRUE,  v |-> Val("str", "exc", id)]

\* ModuleManager.execute: an unregistered name and an exception of a
\* synchronous function both come back as an error text; a coroutine function
\* comes back as its coroutine, not yet run.
module_execute(tool, id) ==
    IF tool \notin registered
    THEN [kind |-> "value", raises |-> FALSE, v |-> Val("str", "notfound", id)]
    ELSE IF is_async(tool)
    THEN [kind |-> "coroutine", raises |-> tool_func(tool, id).raises,
          v |-> tool_func(tool, id).v]
    ELSE IF tool_func(tool, id).raises
    THEN [kind |-> "value", raises |-> FALSE, v |-> Val("str", "execerr", id)]
    ELSE [kind |-> "value", raises |-> FALSE, v |-> tool_func(tool, id).v]

\* What the try block of the Executor (lines 61-70) ends with: the result, or
\* the exception raised by awaiting the coroutine (or by awaiting a value that
\* is no coroutine).
invoke_tool(tool, id) ==
    LET r == module_execute(tool, id)
    IN  IF is_async(tool)
        THEN IF r.kind = "coroutine"
             THEN [raises |-> r.raises, v |-> r.v]
             ELSE [raises |-> TRUE, v |-> Val("str", "exc", id)]
        ELSE [raises |-> FALSE, v |-> r.v]

(***************************************************************************)
(* core/executor.py: Executor.execute_graph_generator                      *)
(***************************************************************************)
StallMessage == Val("str", "stall", 0)
NoTasksExecuted == Val("str", "sentinel", 0)

\* An event of the generator; `tstatus` is the status in task.to_dict()
Event(status, id, tstatus, result) ==
    [status |-> status, task |-> id, tstatus |-> tstatus, result |-> result]

\* results[task_id] = result on a dict: a present key keeps its position
DictSet(d, key, value) ==
    IF \E i \in 1..Len(d) : d[i][1] = key
    THEN [i \in 1..Len(d) |-> IF d[i][1] = key THEN <<key, value>> ELSE d[i]]
    ELSE Append(d, <<key, value>>)

\* the while condition of line 41
loop_continues(g, n) == ~is_complete(g) /\ n < max_loops

\* the stall branch without its `return`: the generator goes on to line 82
after_stall_no_return == "after"

\* line 51: `return` after the stall event ends the generator
after_stall == "done"

\* lines 41-51: the loop test, get_ready_tasks, and the stall check
ExecLoopHead ==
    /\ e_pc = "while"
    /\ IF loop_continues(Graph, loop_count)
       THEN /\ loop_count' = loop_count + 1
            /\ ready_tasks' = get_ready_tasks(Graph)
            /\ ri' = 1
            /\ IF ready_tasks' = <<>>
               THEN IF all_terminal(Graph)
                    THEN /\ e_pc' = "after"
                         /\ e_events' = e_events
                    ELSE /\ e_pc' = after_stall
                         /\ e_events' =
                              Append(e_events, Event("error", 0, "", StallMessage))
               ELSE /\ e_pc' = "for"
                    /\ e_events' = e_events
       ELSE /\ e_pc' = "after"
            /\ UNCHANGED <<loop_count, ready_tasks, ri, e_events>>
    /\ UNCHANGED <<order, tasks, g_last, results>>

\* lines 54-56: the next task of ready_tasks is marked Running and announced
ExecStartTask ==
    /\ e_pc = "for"
    /\ IF ri <= Len(ready_tasks)
       THEN LET id == ready_tasks[ri]
                g  == set_running(Graph, id)
            IN  /\ tasks' = g.tasks
                /\ e_events' = Append(e_events, Event("task_start", id, RUNNING, None))
                /\ e_pc' = "invoke"
       ELSE /\ e_pc' = "while"
            /\ UNCHANGED <<tasks, e_events>>
    /\ UNCHANGED <<order, g_last, loop_count, ready_tasks, ri, results>>

\* lines 61-78: the invocation returns or raises; the task is marked
ExecInvoke ==
    /\ e_pc = "invoke"
    /\ LET id == ready_tasks[ri]
           r  == invoke_tool(tasks[id].tool, id)
       IN  IF ~r.raises
           THEN /\ tasks' = mark_completed(Graph, id, r.v).tasks
                /\ results' = DictSet(results, id, r.v)
                /\ e_events' =
                     Append(e_events, Event("task_complete", id, COMPLETED, Str(r.v)))
           ELSE /\ tasks' = mark_failed(Graph, id, r.v).tasks
                /\ results' = results
                /\ e_events' =
                     Append(e_events, Event("task_failed", id, FAILED, r.v))
    /\ ri' = ri + 1
    /\ e_pc' = "for"
    /\ UNCHANGED <<order, g_last, loop_count, ready_tasks>>

\* final_result taking the first value of the dict, not the last
final_result_first(res) ==
    IF res # <<>> THEN res[1][2] ELSE NoTasksExecuted

\* lines 82-87: the aggregate result
final_result(res) ==
    IF res # <<>> THEN res[Len(res)][2] ELSE NoTasksExecuted

ExecFinish ==
    /\ e_pc = "after"
    /\ e_events' = Append(e_events, Event("plan_complete", 0, "", final_result(results)))
    /\ e_pc' = "done"
    /\ UNCHANGED <<order, tasks, g_last, loop_count, ready_tasks, ri, results>>

\* The graphs a run starts from: every graph of at most NExecTasks tasks over
\* the tools (a dependency id above the number of tasks names no task), and
\* chains longer than the iteration cap, ending in further chain links or in
\* tasks that depend on themselves.
SmallGraph(n, tl, dp) ==
    [order |-> [i \in 1..n |-> i],
     tasks |-> [i \in 1..n |-> Task(tl[i], dp[i])]]

ExecDeps == DepLists(1..NExecTasks)

ChainGraph(cyc) ==
    LET L == max_loops + ChainExtra
    IN  [order |-> [i \in 1..L |-> i],
         tasks |-> [i \in 1..L |->
                      Task("get_time",
                           IF i = 1 THEN <<>>
                           ELSE IF i > max_loops /\ cyc THEN <<i>>
                           ELSE <<i - 1>>)]]


ExecIdle ==
    /\ e_pc = "idle" /\ loop_count = 0 /\ ready_tasks = <<>> /\ ri = 1
    /\ results = <<>> /\ e_events = <<>>

GraphIdle == order = <<>> /\ tasks = EmptyGraph.tasks /\ g_last = "init"

AgentIdle ==
    /\ a_pc = "idle" /\ step = 0 /\ response_content = <<>>
    /\ tool_calls_buffer = <<>> /\ current_tool_index = -1 /\ frags = <<>>
    /\ nchunks = 0 /\ ti = 1 /\ messages = <<>> /\ a_events = <<>>
    /\ nfinal = 0 /\ after_final = FALSE /\ ncalls = 0 /\ result_str = None
    /\ history = <<>>

MemIdle == sessions = [c \in {} |-> <<>>]

ConcIdle ==
    /\ lock = 0 /\ m_pc = <<>> /\ m_msg = <<>> /\ m_ops = 0
    /\ m_returned = <<>> /\ m_got = <<>>

PureIdle == f_pc = "idle" /\ f_in = "none" /\ f_out = "none"

ChatIdle == turns = <<>> /\ added = <<>> /\ issued = 0

ExecInit ==
    /\ \/ \E n \in 0..NExecTasks :
             \E tl \in [1..n -> Tools], dp \in [1..n -> ExecDeps] :
                /\ order = SmallGraph(n, tl, dp).order
                /\ tasks = SmallGraph(n, tl, dp).tasks
       \/ \E cyc \in BOOLEAN :
             /\ order = ChainGraph(cyc).order
             /\ tasks = ChainGraph(cyc).tasks
    /\ g_last = "init"
    /\ e_pc = "while" /\ loop_count = 0 /\ ready_tasks = <<>> /\ ri = 1
    /\ results = <<>> /\ e_events = <<>>
    /\ AgentIdle /\ MemIdle /\ ConcIdle /\ PureIdle /\ ChatIdle

ExecNext ==
    \/ ExecLoopHead /\ UNCHANGED <<agent_vars, mem_vars, conc_vars, pure_vars, chat_vars>>
    \/ ExecStartTask /\ UNCHANGED <<agent_vars, mem_vars, conc_vars, pure_vars, chat_vars>>
    \/ ExecInvoke /\ UNCHANGED <<agent_vars, mem_vars, conc_vars, pure_vars, chat_vars>>
    \/ ExecFinish /\ UNCHANGED <<agent_vars, mem_vars, conc_vars, pure_vars, chat_vars>>

SpecExec == ExecInit /\ [][ExecNext]_vars

\* The generator is driven by its consumer until it ends, and every tool
\* invocation returns.
FairSpecExec == SpecExec /\ WF_vars(ExecNext)

(***************************************************************************)
(* core/executor.py: Executor.execute_graph, the consumer of the generator *)
(* (f_out is last_result, then the value returned)                         *)
(***************************************************************************)
\* lines 18-21: the body of the `async for` for one event
execute_graph_on(last_result, event) ==
    IF event.status = "task_complete"
    THEN [returned |-> FALSE, value |-> event.result]
    ELSE IF event.status = "error"
    THEN [returned |-> TRUE, value |-> event.result]
    ELSE [returned |-> FALSE, value |-> last_result]

\* One step of the generator driven by execute_graph: the event it yields,
\* if any, goes through the loop body; line 22 returns last_result when the
\* generator has ended.
ExecuteGraphStep(generator_step) ==
    /\ f_pc = "iterating"
    /\ generator_step
    /\ LET r == IF Len(e_events') > Len(e_events)
                THEN execute_graph_on(f_out, e_events'[Len(e_events')])
                ELSE [returned |-> FALSE, value |-> f_out]
       IN  /\ f_out' = r.value
           /\ f_pc' = IF r.returned \/ e_pc' = "done" THEN "returned"
                      ELSE "iterating"
    /\ UNCHANGED f_in

\* line 16: last_result = None, over the graphs of ExecInit
ExecuteGraphInit ==
    /\ \/ \E n \in 0..NExecTasks :
             \E tl \in [1..n -> Tools], dp \in [1..n -> ExecDeps] :
                /\ order = SmallGraph(n, tl, dp).order
                /\ tasks = SmallGraph(n, tl, dp).tasks
       \/ \E cyc \in BOOLEAN :
             /\ order = ChainGraph(cyc).order
             /\ tasks = ChainGraph(cyc).tasks
    /\ g_last = "init"
    /\ e_pc = "while" /\ loop_count = 0 /\ ready_tasks = <<>> /\ ri = 1
    /\ results = <<>> /\ e_events = <<>>
    /\ f_pc = "iterating" /\ f_in = "none" /\ f_out = None
    /\ AgentIdle /\ MemIdle /\ ConcIdle /\ ChatIdle

ExecuteGraphNext ==
    \/ ExecuteGraphStep(ExecLoopHead) /\ UNCHANGED <<agent_vars, mem_vars, conc_vars, chat_vars>>
    \/ ExecuteGraphStep(ExecStartTask) /\ UNCHANGED <<agent_vars, mem_vars, conc_vars, chat_vars>>
    \/ ExecuteGraphStep(ExecInvoke) /\ UNCHANGED <<agent_vars, mem_vars, conc_vars, chat_vars>>
    \/ ExecuteGraphStep(ExecFinish) /\ UNCHANGED <<agent_vars, mem_vars, conc_vars, chat_vars>>

SpecExecuteGraph == ExecuteGraphInit /\ [][ExecuteGraphNext]_vars

(***************************************************************************)
(* The backend's answer to a non-streaming llm.generate call, as           *)
(* core/planner.py and core/decision.py read it.                           *)
(*                                                                         *)
(* The content is a sequence of tokens: the two code fences, the phrase    *)
(* LLMService puts in front of an error, text that is no JSON, and the     *)
(* serialization of the response's JSON value.  "[fence]" stands for the   *)
(* three backquotes of a code fence.                                       *)
(***************************************************************************)
FENCE_JSON   == "[fence]json"
FENCE        == "[fence]"
ERROR_PHRASE == "Error generating response"
TEXT         == "text"
JSON         == "json"
Tokens == {FENCE_JSON, FENCE, ERROR_PHRASE, TEXT, JSON}
Contents == UNION {[1..n -> Tokens] : n \in 0..MaxTokens}

\* JSON values: an object (with its 'decision' member, or "absent"), an
\* array (with its elements), a number, a string, null
JValue(type, decision, elems) == [type |-> type, decision |-> decision, elems |-> elems]

\* elements of an array: an object with 'tool', 'args' and 'dependencies'
\* (and 'id', unless id is 0), an object with 'tool' only, an object without
\* 'tool', a value that is no object
TaskDef(kind, id, dependencies) == [kind |-> kind, id |-> id, dependencies |-> dependencies]
Elems == {TaskDef("task", 1, <<>>), TaskDef("task", 2, <<1>>),
          TaskDef("task", 0, <<1>>), TaskDef("tool_only", 0, <<>>),
          TaskDef("no_tool", 1, <<>>), TaskDef("not_object", 0, <<>>)}
\* the elements that have 'tool'
TaskKinds == {"task", "tool_only"}

DecisionNames == {"RESPOND_DIRECTLY", "USE_TOOL", "CREATE_PLAN"}

JsonValues ==
    {JValue("object", dn, <<>>) : dn \in DecisionNames \cup {"DANCE", "absent"}}
    \cup {JValue("array", "absent", el) :
            el \in UNION {[1..n -> Elems] : n \in 0..MaxElems}}
    \cup {JValue(t, "absent", <<>>) : t \in {"number", "string", "null"}}

\* what `await self.llm.generate(...)` ends with: an exception, or a message
\* whose content is a string or None
Outcome(raises, has_content, content, value) ==
    [raises |-> raises, has_content |-> has_content, content |-> content,
     value |-> value]
Outcomes ==
    {Outcome(TRUE, FALSE, <<>>, JValue("null", "absent", <<>>)),
     Outcome(FALSE, FALSE, <<>>, JValue("null", "absent", <<>>))}
    \cup {Outcome(FALSE, TRUE, c, v) : c \in Contents, v \in JsonValues}

\* `sub in content`: a plain fence is also found inside the json fence
Contains(content, sub) ==
    \E i \in 1..Len(content) :
        content[i] = sub \/ (sub = FENCE /\ content[i] = FENCE_JSON)

\* the first position of a token that contains `sep`, or Len + 1
FirstOf(content, sep) ==
    IF Contains(content, sep)
    THEN CHOOSE i \in 1..Len(content) :
            /\ Contains(<<content[i]>>, sep)
            /\ \A j \in 1..(i - 1) : ~Contains(<<content[j]>>, sep)
    ELSE Len(content) + 1

\* content.split(sep)[1].split(fence)[0]: what follows the first `sep`, up
\* to the next fence
Fenced(content, sep) ==
    LET i == FirstOf(content, sep)
        rest == SubSeq(content, i + 1, Len(content))
    IN  SubSeq(rest, 1, FirstOf(rest, FENCE) - 1)

\* planner.py lines 62-65, decision.py lines 70-73
strip_markdown(content) ==
    IF Contains(content, FENCE_JSON) THEN Fenced(content, FENCE_JSON)
    ELSE IF Contains(content, FENCE) THEN Fenced(content, FENCE)
    ELSE content

\* json.loads: the text parses when it is the serialization of one value
json_loads(text, value) ==
    IF text = <<JSON>> THEN [ok |-> TRUE, v |-> value]
    ELSE [ok |-> FALSE, v |-> JValue("null", "absent", <<>>)]

(***************************************************************************)
(* core/llm.py: LLMService.generate, and the consumption of the stream it  *)
(* returns                                                                 *)
(***************************************************************************)
\* What the provider does with one request: client.chat.completions.create
\* raises or returns; a returned stream delivers its items in order, and an
\* item is a chunk with content, a chunk with a tool-call fragment, or the
\* failure of the connection ("raise", after which nothing is delivered); a
\* response without streaming has `choices` choices.
Providers == {"groq", "deepseek"}
ChunkKinds == {"content", "tool_call"}
RECURSIVE StreamsOfLen(_)
StreamsOfLen(n) ==
    IF n = 0 THEN {<<>>}
    ELSE {<<k>> \o s : k \in ChunkKinds, s \in StreamsOfLen(n - 1)}
ProviderStreams ==
    UNION {StreamsOfLen(n) \cup {Append(s, "raise") : s \in StreamsOfLen(n)} :
              n \in 0..(MaxChunks - 1)}
    \cup StreamsOfLen(MaxChunks)
Request(provider, stream, create_raises, choices, items) ==
    [provider |-> provider, stream |-> stream, create_raises |-> create_raises,
     choices |-> choices, items |-> items]

\* error_msg = "Error generating response: ..." as the content of ErrorMessage
\* (non-stream) or of the delta of the single ErrorChunk (stream)
ErrorSentinel == "Error generating response"

\* What generate has returned, and what its consumer has received so far
Returned(kind, delivered, pos) ==
    [raised |-> FALSE, kind |-> kind, delivered |-> delivered, pos |-> pos]

\* the except branch of lines 73-94
on_provider_error(stream) ==
    IF stream THEN Returned("error_gen", <<>>, 0)
    ELSE Returned("ErrorMessage", <<ErrorSentinel>>, 0)

\* lines 34-71: the try block
generate(req) ==
    IF req.create_raises THEN on_provider_error(req.stream)
    ELSE IF req.stream THEN Returned("stream_generator", <<>>, 0)
    ELSE IF req.choices = 0 THEN on_provider_error(req.stream)
    ELSE Returned("message", <<"content">>, 0)

\* await self.llm.generate(...)
LLMGenerate ==
    /\ f_pc = "call"
    /\ f_out' = generate(f_in)
    /\ f_pc' = IF f_in.stream THEN "consuming" ELSE "returned"
    /\ UNCHANGED f_in

\* lines 63-65: the consumer asks stream_generator for its next chunk; the
\* generator asks the provider's stream, outside the try block of generate
LLMNextChunk ==
    /\ f_pc = "consuming" /\ f_out.kind = "stream_generator"
    /\ IF f_out.pos < Len(f_in.items)
       THEN LET item == f_in.items[f_out.pos + 1]
            IN  IF item = "raise"
                THEN /\ f_pc' = "raised"
                     /\ f_out' = [f_out EXCEPT !.pos = @ + 1]
                ELSE /\ f_pc' = "consuming"
                     /\ f_out' = [f_out EXCEPT !.pos = @ + 1,
                                               !.delivered = Append(@, item)]
       ELSE /\ f_pc' = "consumed"
            /\ UNCHANGED f_out
    /\ UNCHANGED f_in

\* lines 83-92: error_gen yields its one ErrorChunk and ends
LLMErrorChunk ==
    /\ f_pc = "consuming" /\ f_out.kind = "error_gen"
    /\ IF f_out.pos = 0
       THEN /\ f_out' = [f_out EXCEPT !.pos = 1, !.delivered = <<ErrorSentinel>>]
            /\ f_pc' = "consuming"
       ELSE /\ f_pc' = "consumed"
            /\ UNCHANGED f_out
    /\ UNCHANGED f_in

LLMInit ==
    /\ f_pc = "call"
    /\ \E p \in Providers, st \in BOOLEAN, cr \in BOOLEAN, n \in 0..1,
          items \in ProviderStreams :
          /\ (~st \/ cr) => items = <<>>
          /\ (st \/ cr) => n = 1
          /\ f_in = Request(p, st, cr, n, items)
    /\ f_out = Returned("none", <<>>, 0)
    /\ GraphIdle /\ ExecIdle /\ AgentIdle /\ MemIdle /\ ConcIdle /\ ChatIdle

LLMNext ==
    \/ LLMGenerate /\ UNCHANGED <<graph_vars, exec_vars, agent_vars, mem_vars, conc_vars, chat_vars>>
    \/ LLMNextChunk /\ UNCHANGED <<graph_vars, exec_vars, agent_vars, mem_vars, conc_vars, chat_vars>>
    \/ LLMErrorChunk /\ UNCHANGED <<graph_vars, exec_vars, agent_vars, mem_vars, conc_vars, chat_vars>>

SpecLLM == LLMInit /\ [][LLMNext]_vars

(***************************************************************************)
(* core/planner.py: Planner.create_plan                                    *)
(***************************************************************************)
\* `for task_def in plan_data`: an array gives its elements, an object its
\* keys and a string its characters (no objects); other values do not iterate
plan_items(v) ==
    CASE v.type = "array"  -> [raises |-> FALSE, items |-> v.elems]
      [] v.type = "object" -> [raises |-> FALSE,
                               items |-> <<TaskDef("not_object", 0, <<>>)>>]
      [] v.type = "string" -> [raises |-> FALSE,
                               items |-> <<TaskDef("not_object", 0, <<>>)>>]
      [] OTHER             -> [raises |-> TRUE, items |-> <<>>]

\* str(uuid.uuid4())[:8]: an id no task_def supplies; n tells the calls apart
FreshId(n) == 10 + n

\* Task.__init__ keeping no supplied id: every task gets a generated one
new_task_id_generated(task_id, n) == FreshId(n)

\* task_graph.py line 12: self.id = task_id or str(uuid.uuid4())[:8]
new_task_id(task_id, n) == IF task_id # 0 THEN task_id ELSE FreshId(n)

\* task_def.get("args", {}) and task_def.get("dependencies", []) (then
\* `dependencies or []` of task_graph.py line 15)
EmptyArgs == "{}"
SuppliedArgs == "{a: 1}"
args_of(task_def) ==
    IF task_def.kind = "tool_only" THEN EmptyArgs ELSE SuppliedArgs
dependencies_of(task_def) ==
    IF task_def.kind = "tool_only" THEN <<>> ELSE task_def.dependencies

\* lines 71-76: Task(tool=..., args=..., dependencies=..., task_id=...)
PlannedTask(task_def) ==
    [tool |-> "get_time", args |-> args_of(task_def),
     dependencies |-> dependencies_of(task_def), status |-> PENDING,
     result |-> None, error |-> None]

\* lines 69-77: the loop that fills the graph, until an element raises
RECURSIVE build_graph(_, _)
build_graph(g, items) ==
    IF items = <<>> THEN [raises |-> FALSE, graph |-> g]
    ELSE LET task_def == Head(items)
         IN  IF task_def.kind \notin TaskKinds THEN [raises |-> TRUE, graph |-> g]
             ELSE build_graph(add_task(g, new_task_id(task_def.id, Len(items)),
                                       PlannedTask(task_def)),
                              Tail(items))

\* lines 53-79: the try block
planner_try(o) ==
    IF o.raises \/ ~o.has_content THEN [raises |-> TRUE, graph |-> EmptyGraph]
    ELSE LET p == json_loads(strip_markdown(o.content), o.value)
         IN  IF ~p.ok THEN [raises |-> TRUE, graph |-> EmptyGraph]
             ELSE LET it == plan_items(p.v)
                  IN  IF it.raises THEN [raises |-> TRUE, graph |-> EmptyGraph]
                      ELSE build_graph(EmptyGraph, it.items)

\* the except branch returning the graph filled so far
on_planning_error_partial(graph) == graph

\* lines 81-83: `return TaskGraph()`
on_planning_error(graph) == EmptyGraph

\* Planner.create_plan: what the call ends with
create_plan(o) ==
    LET r == planner_try(o)
    IN  [raised |-> FALSE,
         graph |-> IF r.raises THEN on_planning_error(r.graph) ELSE r.graph]

PlannerCall ==
    /\ f_pc = "call"
    /\ f_out' = create_plan(f_in)
    /\ f_pc' = "returned"
    /\ UNCHANGED f_in

PlannerInit ==
    /\ f_pc = "call" /\ f_in \in Outcomes /\ f_out = "none"
    /\ GraphIdle /\ ExecIdle /\ AgentIdle /\ MemIdle /\ ConcIdle /\ ChatIdle

PlannerNext ==
    \/ PlannerCall /\ UNCHANGED <<graph_vars, exec_vars, agent_vars, mem_vars, conc_vars, chat_vars>>

SpecPlanner == PlannerInit /\ [][PlannerNext]_vars

(***************************************************************************)
(* core/decision.py: DecisionLayer.decide                                  *)
(***************************************************************************)
\* the dict {"decision": name, "reasoning": ...}
Decision(name) == JValue("object", name, <<>>)

\* lines 67, 83 and 88: the three fallback returns
RespondDirectly == Decision("RESPOND_DIRECTLY")

\* lines 49-88: an exception of the backend call, a content that is None
\* (the `in` test of line 70 raises) and the error phrase give the fallback;
\* otherwise the fences are removed and the text parsed: the parsed value is
\* returned as it is, and a text that does not parse gives the fallback
decide(o) ==
    IF o.raises THEN [raised |-> FALSE, value |-> RespondDirectly]
    ELSE IF o.has_content /\ Contains(o.content, ERROR_PHRASE)
    THEN [raised |-> FALSE, value |-> RespondDirectly]
    ELSE IF ~o.has_content THEN [raised |-> FALSE, value |-> RespondDirectly]
    ELSE LET p == json_loads(strip_markdown(o.content), o.value)
         IN  IF p.ok THEN [raised |-> FALSE, value |-> p.v]
             ELSE [raised |-> FALSE, value |-> RespondDirectly]

DecideCall ==
    /\ f_pc = "call"
    /\ f_out' = decide(f_in)
    /\ f_pc' = "returned"
    /\ UNCHANGED f_in

DecideInit ==
    /\ f_pc = "call" /\ f_in \in Outcomes /\ f_out = "none"
    /\ GraphIdle /\ ExecIdle /\ AgentIdle /\ MemIdle /\ ConcIdle /\ ChatIdle

DecideNext ==
    \/ DecideCall /\ UNCHANGED <<graph_vars, exec_vars, agent_vars, mem_vars, conc_vars, chat_vars>>

SpecDecide == DecideInit /\ [][DecideNext]_vars

(***************************************************************************)
(* A client of TaskGraph: the operations of core/task_graph.py in any      *)
(* order, over task ids 1..NGraphIds                                       *)
(***************************************************************************)
GraphIds == 1..NGraphIds

\* add_task of a task with a fresh id (dependencies on any id, present or not)
GAddTask ==
    \E id \in GraphIds \ DOMAIN tasks, dp \in DepLists(GraphIds) :
        LET g == add_task(Graph, id, Task("get_time", dp))
        IN  /\ order' = g.order /\ tasks' = g.tasks
            /\ g_last' = "mutate" /\ ready_tasks' = <<>>

GMarkCompleted ==
    \E id \in GraphIds :
        LET g == mark_completed(Graph, id, Val("str", "tool", id))
        IN  /\ order' = g.order /\ tasks' = g.tasks
            /\ g_last' = "mutate" /\ ready_tasks' = <<>>

GMarkFailed ==
    \E id \in GraphIds :
        LET g == mark_failed(Graph, id, Val("str", "exc", id))
        IN  /\ order' = g.order /\ tasks' = g.tasks
            /\ g_last' = "mutate" /\ ready_tasks' = <<>>

\* the Executor's write task.status = RUNNING, made on Pending tasks
GSetRunning ==
    \E id \in {i \in DOMAIN tasks : tasks[i].status = PENDING} :
        LET g == set_running(Graph, id)
        IN  /\ order' = g.order /\ tasks' = g.tasks
            /\ g_last' = "mutate" /\ ready_tasks' = <<>>

GGetReadyTasks ==
    /\ ready_tasks' = get_ready_tasks(Graph)
    /\ g_last' = "get_ready_tasks"
    /\ UNCHANGED <<order, tasks>>

\* is_complete(): g_last records the call with the value it returned
GIsComplete ==
    /\ g_last' = IF is_complete(Graph) THEN "is_complete: True"
                 ELSE "is_complete: False"
    /\ ready_tasks' = <<>>
    /\ UNCHANGED <<order, tasks>>

GraphInit ==
    /\ order = <<>> /\ tasks = EmptyGraph.tasks /\ g_last = "init"
    /\ ExecIdle /\ AgentIdle /\ MemIdle /\ ConcIdle /\ PureIdle /\ ChatIdle

GraphNext ==
    \/ GAddTask /\ UNCHANGED <<e_pc, loop_count, ri, results, e_events, agent_vars, mem_vars, conc_vars, pure_vars, chat_vars>>
    \/ GMarkCompleted /\ UNCHANGED <<e_pc, loop_count, ri, results, e_events, agent_vars, mem_vars, conc_vars, pure_vars, chat_vars>>
    \/ GMarkFailed /\ UNCHANGED <<e_pc, loop_count, ri, results, e_events, agent_vars, mem_vars, conc_vars, pure_vars, chat_vars>>
    \/ GSetRunning /\ UNCHANGED <<e_pc, loop_count, ri, results, e_events, agent_vars, mem_vars, conc_vars, pure_vars, chat_vars>>
    \/ GGetReadyTasks /\ UNCHANGED <<e_pc, loop_count, ri, results, e_events, agent_vars, mem_vars, conc_vars, pure_vars, chat_vars>>

SpecGraph == GraphInit /\ [][GraphNext]_vars

\* The same client asking is_complete() instead of get_ready_tasks()
CompleteNext ==
    \/ GAddTask /\ UNCHANGED <<e_pc, loop_count, ri, results, e_events, agent_vars, mem_vars, conc_vars, pure_vars, chat_vars>>
    \/ GMarkCompleted /\ UNCHANGED <<e_pc, loop_count, ri, results, e_events, agent_vars, mem_vars, conc_vars, pure_vars, chat_vars>>
    \/ GMarkFailed /\ UNCHANGED <<e_pc, loop_count, ri, results, e_events, agent_vars, mem_vars, conc_vars, pure_vars, chat_vars>>
    \/ GSetRunning /\ UNCHANGED <<e_pc, loop_count, ri, results, e_events, agent_vars, mem_vars, conc_vars, pure_vars, chat_vars>>
    \/ GIsComplete /\ UNCHANGED <<e_pc, loop_count, ri, results, e_events, agent_vars, mem_vars, conc_vars, pure_vars, chat_vars>>

SpecComplete == GraphInit /\ [][CompleteNext]_vars

\* The same client making only the writes: add_task, mark_completed,
\* mark_failed and the Executor's task.status = RUNNING
MutateNext ==
    \/ GAddTask /\ UNCHANGED <<e_pc, loop_count, ri, results, e_events, agent_vars, mem_vars, conc_vars, pure_vars, chat_vars>>
    \/ GMarkCompleted /\ UNCHANGED <<e_pc, loop_count, ri, results, e_events, agent_vars, mem_vars, conc_vars, pure_vars, chat_vars>>
    \/ GMarkFailed /\ UNCHANGED <<e_pc, loop_count, ri, results, e_events, agent_vars, mem_vars, conc_vars, pure_vars, chat_vars>>
    \/ GSetRunning /\ UNCHANGED <<e_pc, loop_count, ri, results, e_events, agent_vars, mem_vars, conc_vars, pure_vars, chat_vars>>

SpecMutate == GraphInit /\ [][MutateNext]_vars

(***************************************************************************)
(* core/memory/episodic_memory.py                                          *)
(***************************************************************************)
ChatId == "A"

Message(role, content) == [role |-> role, content |-> content]

\* EpisodicMemory.get_history: self.sessions.get(str(chat_id), [])
get_history(s, cid) == IF cid \in DOMAIN s THEN s[cid] ELSE <<>>

\* EpisodicMemory.add_message, lines 38-42: the chat's list is created when
\* absent, and the message appended
add_message(s, cid, role, content) ==
    [c \in (DOMAIN s) \cup {cid} |->
        IF c = cid THEN Append(get_history(s, cid), Message(role, content))
        ELSE s[c]]

\* EpisodicMemory.clear
clear(s, cid) == [c \in (DOMAIN s) \cup {cid} |-> IF c = cid THEN <<>> ELSE s[c]]

(***************************************************************************)
(* Concurrent callers of one EpisodicMemory, all on the same chat id: each *)
(* issues add_message, get_history and clear calls; a call waits for       *)
(* self.lock, runs its body statement by statement, releases the lock and  *)
(* returns.                                                                *)
(***************************************************************************)
Callers == 1..NCallers

\* asyncio.Lock acquired whether or not it is held
lock_free_always(l) == TRUE

\* `async with self.lock` enters when the lock is not held
lock_free(l) == l = 0

\* lines 39-40: the chat's list is created when absent
ensure_session(s, cid) ==
    [c \in (DOMAIN s) \cup {cid} |-> IF c \in DOMAIN s THEN s[c] ELSE <<>>]

\* line 42: self.sessions[cid].append(...)
append_message(s, cid, m) == [s EXCEPT ![cid] = Append(@, m)]

\* the messages the chat's file held when the memory was loaded
LoadedHistory == <<Message("user", <<0, 1>>), Message("assistant", <<0, 2>>)>>

\* a caller calls one of the three operations; the message of an
\* add_message call carries the caller and the number of the call
MemCall(p) ==
    /\ m_pc[p] = "idle" /\ m_ops < MaxOps
    /\ m_ops' = m_ops + 1
    /\ \E op \in {"add", "get", "clear"} :
          /\ m_pc' = [m_pc EXCEPT ![p] = op \o "_acquire"]
          /\ m_msg' = [m_msg EXCEPT ![p] =
                          IF op = "add" THEN Message("user", <<p, m_ops + 1>>)
                          ELSE Message("none", <<>>)]
    /\ UNCHANGED <<sessions, lock, m_returned, m_got>>

\* async with self.lock
MemAcquire(p) ==
    /\ m_pc[p] \in {"add_acquire", "get_acquire", "clear_acquire"}
    /\ lock_free(lock)
    /\ lock' = p
    /\ m_pc' = [m_pc EXCEPT ![p] =
                   CASE m_pc[p] = "add_acquire" -> "add_check"
                     [] m_pc[p] = "get_acquire" -> "get_read"
                     [] OTHER                   -> "clear_set"]
    /\ UNCHANGED <<sessions, m_msg, m_ops, m_returned, m_got>>

\* add_message lines 38-40
MemAddCheck(p) ==
    /\ m_pc[p] = "add_check"
    /\ sessions' = ensure_session(sessions, ChatId)
    /\ m_pc' = [m_pc EXCEPT ![p] = "add_append"]
    /\ UNCHANGED <<lock, m_msg, m_ops, m_returned, m_got>>

\* add_message line 42
MemAddAppend(p) ==
    /\ m_pc[p] = "add_append"
    /\ sessions' = append_message(sessions, ChatId, m_msg[p])
    /\ m_pc' = [m_pc EXCEPT ![p] = "add_save"]
    /\ UNCHANGED <<lock, m_msg, m_ops, m_returned, m_got>>

\* add_message line 43 and the end of the with block: the file is written,
\* the lock released and the call returns
MemAddReturn(p) ==
    /\ m_pc[p] = "add_save"
    /\ lock' = 0
    /\ m_returned' = Append(m_returned, m_msg[p])
    /\ m_pc' = [m_pc EXCEPT ![p] = "idle"]
    /\ UNCHANGED <<sessions, m_msg, m_ops, m_got>>

\* get_history lines 28-29: the list is read, the lock released, the call
\* returns the list
MemGetHistory(p) ==
    /\ m_pc[p] = "get_read"
    /\ m_got' = [h |-> get_history(sessions, ChatId), returned |-> m_returned]
    /\ lock' = 0
    /\ m_pc' = [m_pc EXCEPT ![p] = "idle"]
    /\ UNCHANGED <<sessions, m_msg, m_ops, m_returned>>

\* clear line 47
MemClearSet(p) ==
    /\ m_pc[p] = "clear_set"
    /\ sessions' = clear(sessions, ChatId)
    /\ m_returned' = <<>>
    /\ m_pc' = [m_pc EXCEPT ![p] = "clear_save"]
    /\ UNCHANGED <<lock, m_msg, m_ops, m_got>>

\* clear line 48 and the end of the with block
MemClearReturn(p) ==
    /\ m_pc[p] = "clear_save"
    /\ lock' = 0
    /\ m_pc' = [m_pc EXCEPT ![p] = "idle"]
    /\ UNCHANGED <<sessions, m_msg, m_ops, m_returned, m_got>>

MemInit ==
    /\ sessions \in {[c \in {} |-> <<>>], [c \in {ChatId} |-> LoadedHistory]}
    /\ lock = 0
    /\ m_pc = [p \in Callers |-> "idle"]
    /\ m_msg = [p \in Callers |-> Message("none", <<>>)]
    /\ m_ops = 0
    /\ m_returned = get_history(sessions, ChatId)
    /\ m_got = [h |-> <<>>, returned |-> <<>>]
    /\ GraphIdle /\ ExecIdle /\ AgentIdle /\ PureIdle /\ ChatIdle

MemNext ==
    \/ \E p \in Callers : MemCall(p) /\ UNCHANGED <<graph_vars, exec_vars, agent_vars, pure_vars, chat_vars>>
    \/ \E p \in Callers : MemAcquire(p) /\ UNCHANGED <<graph_vars, exec_vars, agent_vars, pure_vars, chat_vars>>
    \/ \E p \in Callers : MemAddCheck(p) /\ UNCHANGED <<graph_vars, exec_vars, agent_vars, pure_vars, chat_vars>>
    \/ \E p \in Callers : MemAddAppend(p) /\ UNCHANGED <<graph_vars, exec_vars, agent_vars, pure_vars, chat_vars>>
    \/ \E p \in Callers : MemAddReturn(p) /\ UNCHANGED <<graph_vars, exec_vars, agent_vars, pure_vars, chat_vars>>
    \/ \E p \in Callers : MemGetHistory(p) /\ UNCHANGED <<graph_vars, exec_vars, agent_vars, pure_vars, chat_vars>>
    \/ \E p \in Callers : MemClearSet(p) /\ UNCHANGED <<graph_vars, exec_vars, agent_vars, pure_vars, chat_vars>>
    \/ \E p \in Callers : MemClearReturn(p) /\ UNCHANGED <<graph_vars, exec_vars, agent_vars, pure_vars, chat_vars>>

SpecMem == MemInit /\ [][MemNext]_vars

(***************************************************************************)
(* bot.py with core/agent.py and core/memory/episodic_memory.py: the one   *)
(* Agent of the process serving concurrent turns and /clear commands of    *)
(* several chats.  Of a turn the statements that read or write the memory  *)
(* and the working conversation are modelled; each EpisodicMemory method   *)
(* runs under self.lock without suspending, so it is one step.             *)
(***************************************************************************)
MaxIssued == 2      \* SpecChats: turns and clears started in all
MaxIters  == 1      \* SpecChats: iterations with tool calls in a turn

\* The chat ids callers pass: a string, or an integer with the same digits
ChatIds == {[type |-> "str", digits |-> "1"], [type |-> "int", digits |-> "1"],
            [type |-> "str", digits |-> "2"]}

\* every chat id stored under one key
cid_shared(chat_id) == "1"

\* cid = str(chat_id)
cid(chat_id) == chat_id.digits

Keys == {cid(c) : c \in ChatIds}

\* The chat a chat id names.  The text of a message of the model starts with
\* the chat of the turn it comes from, then the caller that served the turn.
ChatOf(chat_id) == chat_id.digits

\* The list object get_history returns: the list stored under the key (which
\* later add_message calls extend, until clear binds the key to a new list),
\* or a new empty list when the key is absent.  `returned` is its content
\* when it was returned, `frozen` its content once it is no longer stored.
ListRef(stored, key, returned, frozen) ==
    [stored |-> stored, key |-> key, returned |-> returned, frozen |-> frozen]
NoList == ListRef(FALSE, "", <<>>, <<>>)
get_history_list(s, key) ==
    IF key \in DOMAIN s THEN ListRef(TRUE, key, s[key], <<>>)
    ELSE ListRef(FALSE, key, <<>>, <<>>)
ListOf(s, ref) == IF ref.stored THEN s[ref.key] ELSE ref.frozen

\* the list stored under `key` is replaced: a turn that holds it keeps the
\* old list
Detach(ts, s, key) ==
    [q \in DOMAIN ts |->
        IF ts[q].history.stored /\ ts[q].history.key = key
        THEN [ts[q] EXCEPT !.history.stored = FALSE, !.history.frozen = s[key]]
        ELSE ts[q]]

\* clear that empties every chat
clear_all(s, key) == [k \in DOMAIN s \cup {key} |-> <<>>]

\* self.sessions[str(chat_id)] = [] of clear, as called here
clear_chat(s, key) == clear(s, key)

SystemMessage == Message("system", <<"system_prompt">>)
NoTurn == [pc |-> "idle", chat_id |-> [type |-> "none", digits |-> ""],
           user_input |-> <<>>, history |-> NoList, messages |-> <<>>,
           response_content |-> <<>>]
ToolMessages(msgs) == SelectSeq(msgs, LAMBDA m : m.role = "tool")

\* agent.py lines 49-99: a message of chat c arrives, the history is loaded
\* and the working conversation built (no suspension after get_history
\* returns)
ChatStart(p) ==
    /\ turns[p].pc = "idle" /\ issued < MaxIssued
    /\ \E c \in ChatIds :
          LET ref == get_history_list(sessions, cid(c))
              input == <<ChatOf(c), p, "question">>
          IN  turns' = [turns EXCEPT ![p] =
                 [pc |-> "loop", chat_id |-> c, user_input |-> input,
                  history |-> ref,
                  messages |-> <<SystemMessage>> \o ref.returned
                                  \o <<Message("user", input)>>,
                  response_content |-> <<>>]]
    /\ issued' = issued + 1
    /\ UNCHANGED <<sessions, added>>

\* lines 164-237: an iteration with a tool call appends the assistant
\* message carrying tool_calls and the tool-role message
ChatIterate(p) ==
    /\ turns[p].pc = "loop"
    /\ Len(ToolMessages(turns[p].messages)) < MaxIters
    /\ LET chat == ChatOf(turns[p].chat_id)
       IN  turns' = [turns EXCEPT ![p].messages =
              @ \o <<Message("assistant", <<chat, p, "tool_calls">>),
                     Message("tool", <<chat, p, "observation">>)>>]
    /\ UNCHANGED <<sessions, added, issued>>

\* lines 120-125, 154-157 and 104: the turn ends with an error 'final', or
\* by the step cap, or its caller stops: nothing is written
ChatEndsUnanswered(p) ==
    /\ turns[p].pc = "loop"
    /\ turns' = [turns EXCEPT ![p] = NoTurn]
    /\ UNCHANGED <<sessions, added, issued>>

\* lines 241-250: a response without tool calls is the final answer
ChatFinal(p) ==
    /\ turns[p].pc = "loop"
    /\ turns' = [turns EXCEPT ![p].pc = "save_user",
                              ![p].response_content =
                                  <<ChatOf(turns[p].chat_id), p, "answer">>]
    /\ UNCHANGED <<sessions, added, issued>>

\* lines 253-255: add_message(chat_id, "user", user_input), then
\* add_message(chat_id, "assistant", response_content); break, and the
\* generator returns
ChatSave(p) ==
    /\ turns[p].pc \in {"save_user", "save_assistant"}
    /\ LET key == cid(turns[p].chat_id)
           role == IF turns[p].pc = "save_user" THEN "user" ELSE "assistant"
           content == IF turns[p].pc = "save_user" THEN turns[p].user_input
                      ELSE turns[p].response_content
       IN  /\ sessions' = add_message(sessions, key, role, content)
           /\ added' = [added EXCEPT ![key] = Append(@, Message(role, content))]
           /\ turns' = [turns EXCEPT ![p] =
                 IF turns[p].pc = "save_user"
                 THEN [@ EXCEPT !.pc = "save_assistant"]
                 ELSE NoTurn]
    /\ UNCHANGED issued

\* bot.py lines 36-39: /clear
ChatClear(p) ==
    /\ turns[p].pc = "idle" /\ issued < MaxIssued
    /\ \E c \in ChatIds :
          LET key == cid(c)
          IN  /\ sessions' = clear_chat(sessions, key)
              /\ added' = [added EXCEPT ![key] = <<>>]
              /\ turns' = [Detach(turns, sessions, key) EXCEPT ![p].chat_id = c]
    /\ issued' = issued + 1

\* sessions.json as _load finds it: absent, or with one chat
StoredSessions ==
    {[k \in {} |-> <<>>],
     [k \in {"1"} |-> <<Message("user", <<"1", 0, "question">>),
                        Message("assistant", <<"1", 0, "answer">>)>>]}

ChatInit ==
    /\ sessions \in StoredSessions
    /\ added = [k \in Keys |-> IF k \in DOMAIN sessions THEN sessions[k] ELSE <<>>]
    /\ turns = [p \in Callers |-> NoTurn]
    /\ issued = 0
    /\ lock = 0 /\ m_pc = <<>> /\ m_msg = <<>> /\ m_ops = 0
    /\ m_returned = <<>> /\ m_got = <<>>
    /\ GraphIdle /\ ExecIdle /\ AgentIdle /\ PureIdle

\* a step of caller p: of its turn, or its /clear
ChatStep(p) ==
    \/ ChatStart(p)
    \/ ChatIterate(p)
    \/ ChatEndsUnanswered(p)
    \/ ChatFinal(p)
    \/ ChatSave(p)
    \/ ChatClear(p)

ChatNext ==
    \/ \E p \in Callers : ChatStart(p) /\ UNCHANGED <<graph_vars, exec_vars, agent_vars, conc_vars, pure_vars>>
    \/ \E p \in Callers : ChatIterate(p) /\ UNCHANGED <<graph_vars, exec_vars, agent_vars, conc_vars, pure_vars>>
    \/ \E p \in Callers : ChatEndsUnanswered(p) /\ UNCHANGED <<graph_vars, exec_vars, agent_vars, conc_vars, pure_vars>>
    \/ \E p \in Callers : ChatFinal(p) /\ UNCHANGED <<graph_vars, exec_vars, agent_vars, conc_vars, pure_vars>>
    \/ \E p \in Callers : ChatSave(p) /\ UNCHANGED <<graph_vars, exec_vars, agent_vars, conc_vars, pure_vars>>
    \/ \E p \in Callers : ChatClear(p) /\ UNCHANGED <<graph_vars, exec_vars, agent_vars, conc_vars, pure_vars>>

SpecChats == ChatInit /\ [][ChatNext]_vars

(***************************************************************************)
(* core/agent.py: Agent.run                                                *)
(*                                                                         *)
(* Text is a sequence of tokens; concatenation is \o.                      *)
(***************************************************************************)
user_input == <<"q">>
OldHistory == <<Message("user", <<"q0">>), Message("assistant", <<"a0">>)>>

\* The streamed tool-call fragments of the model: an opening fragment
\* carries a name and the call's id (or none: tc.id or ""), a continuation
\* carries argument text.
Openers == {<<"c", <<"get_time">>>>, <<"", <<"afail">>>>, <<"c", <<"create_plan">>>>}
ArgParts == {<<"{\"a\":">>, <<"1}">>}
Fragment(index, id, name, arguments) ==
    [index |-> index, id |-> id, name |-> name, arguments |-> arguments]
Fragments ==
    {Fragment(i, o[1], o[2], <<>>) : i \in 0..MaxIndex, o \in Openers}
    \cup {Fragment(i, "", <<>>, a) : i \in 0..MaxIndex, a \in ArgParts}

\* lines 138-152: one fragment of delta.tool_calls
ApplyFragment(buf, cur, tc) ==
    IF tc.index # cur
    THEN [cur |-> tc.index,
          buf |-> Append(buf, [id |-> tc.id, name |-> tc.name,
                               arguments |-> tc.arguments])]
    ELSE IF cur >= 0 /\ cur < Len(buf)
    THEN [cur |-> cur,
          buf |-> [buf EXCEPT ![cur + 1].name = @ \o tc.name,
                              ![cur + 1].arguments = @ \o tc.arguments]]
    ELSE [cur |-> cur, buf |-> buf]

\* the argument text of the model that is valid JSON
ValidArgs == <<"{\"a\":", "1}">>

\* json.loads(args_str) without the except of lines 187-188: text that does
\* not parse is reported as it is
parse_args_unguarded(args_str) ==
    IF args_str = ValidArgs THEN "{a: 1}" ELSE "parse error"

\* json.loads(args_str) with the bare except of lines 185-188
parse_args(args_str) == IF args_str = ValidArgs THEN "{a: 1}" ELSE "{}"

\* call_id = tc["id"] or "call_" + func_name
call_id(tc) == IF tc.id # "" THEN <<tc.id>> ELSE <<"call_">> \o tc.name

\* the registered tool a reconstructed name denotes, if any
tool_of(name) ==
    IF Len(name) = 1 /\ name[1] \in registered THEN name[1] ELSE "nope"

\* the invocation without the try/except of lines 221-227 and without the
\* registry test of line 260: whatever the invocation ends with is observed
execute_tool_unguarded(name) == Str(tool_func(tool_of(name), 0).v)

\* lines 221-227 with _execute_tool_safe (lines 257-271): the text observed
execute_tool_safe(name) ==
    LET tool == tool_of(name)
        r == module_execute(tool, 0)
    IN  IF tool \notin registered THEN Val("str", "notfound", 0)
        ELSE IF is_async(tool)
        THEN IF r.kind = "coroutine" /\ ~r.raises THEN Str(r.v)
             ELSE Val("str", "Error", 0)
        ELSE Str(r.v)

AEvent(status, n, text, name, args, result) ==
    [status |-> status, n |-> n, text |-> text, name |-> name, args |-> args,
     result |-> result]

AMessage(role, content, tool_calls, tool_call_id, name, result) ==
    [role |-> role, content |-> content, tool_calls |-> tool_calls,
     tool_call_id |-> tool_call_id, name |-> name, result |-> result]

\* yield event
Emit(e) ==
    /\ a_events' = Append(a_events, e)
    /\ nfinal' = IF e.status = "final" THEN nfinal + 1 ELSE nfinal
    /\ after_final' = (after_final \/ nfinal > 0)

\* lines 54-101: the history is loaded and the working conversation built
AgentStart ==
    /\ a_pc = "start"
    /\ history' = get_history(sessions, ChatId)
    /\ step' = 0
    /\ a_pc' = "loop"
    /\ UNCHANGED <<response_content, tool_calls_buffer, current_tool_index, frags,
                   nchunks, ti, messages, a_events, nfinal, after_final, ncalls,
                   result_str, sessions>>

\* the loop test without its bound: `while True`
step_allowed_always(n) == TRUE

\* the loop test of line 104
step_allowed(n) == n < max_steps

\* lines 104-110: the loop test, the 'thinking' event, the accumulators reset;
\* a failed test leaves the loop, and the generator ends
AgentLoopHead ==
    /\ a_pc = "loop"
    /\ IF step_allowed(step)
       THEN /\ step' = step + 1
            /\ a_events' = <<AEvent("thinking", step + 1, <<>>, <<>>, "", None)>>
            /\ after_final' = (after_final \/ nfinal > 0)
            /\ response_content' = <<>>
            /\ tool_calls_buffer' = <<>>
            /\ frags' = <<>>
            /\ nchunks' = 0
            /\ messages' = <<>>
            /\ a_pc' = "generate"
       ELSE /\ a_pc' = "done"
            /\ UNCHANGED <<step, a_events, after_final, response_content,
                           tool_calls_buffer, frags, nchunks, messages>>
    /\ UNCHANGED <<current_tool_index, ti, nfinal, ncalls, result_str, history, sessions>>

\* lines 154-157: the except branch yields 'final' and returns
AgentGenerateFails ==
    /\ Emit(AEvent("final", step, <<"Error">>, <<>>, "", None))
    /\ a_pc' = "done"

\* line 115-118: llm.generate returns the stream, or raises
AgentGenerate ==
    /\ a_pc = "generate"
    /\ ncalls' = ncalls + 1
    /\ \/ /\ current_tool_index' = -1
          /\ a_pc' = "stream"
          /\ UNCHANGED <<a_events, nfinal, after_final>>
       \/ /\ AgentGenerateFails
          /\ UNCHANGED current_tool_index
    /\ UNCHANGED <<step, response_content, tool_calls_buffer, frags, nchunks, ti,
                   messages, result_str, history, sessions>>

\* the error-chunk branch without its `return`: the stream is consumed further
after_error_chunk_no_return == "stream"

\* line 125: `return` after the 'final' of an error chunk
after_error_chunk == "done"

\* lines 120-125: a chunk that is a string
AgentErrorChunk ==
    /\ a_pc = "stream" /\ nchunks < MaxChunks
    /\ nchunks' = nchunks + 1
    /\ Emit(AEvent("final", step, <<"error chunk">>, <<>>, "", None))
    /\ a_pc' = after_error_chunk
    /\ UNCHANGED <<step, response_content, tool_calls_buffer, current_tool_index,
                   frags, ti, messages, ncalls, result_str, history, sessions>>

\* lines 127-133: a chunk whose delta carries content
AgentContentChunk ==
    /\ a_pc = "stream" /\ nchunks < MaxChunks
    /\ nchunks' = nchunks + 1
    /\ response_content' = response_content \o <<"x">>
    /\ Emit(AEvent("thinking", step, response_content', <<>>, "", None))
    /\ UNCHANGED <<a_pc, step, tool_calls_buffer, current_tool_index, frags, ti,
                   messages, ncalls, result_str, history, sessions>>

\* lines 136-152: a chunk whose delta carries a tool-call fragment
AgentToolCallChunk ==
    /\ a_pc = "stream" /\ nchunks < MaxChunks
    /\ nchunks' = nchunks + 1
    /\ \E tc \in Fragments :
          LET r == ApplyFragment(tool_calls_buffer, current_tool_index, tc)
          IN  /\ tool_calls_buffer' = r.buf
              /\ current_tool_index' = r.cur
              /\ frags' = Append(frags, tc)
    /\ UNCHANGED <<a_pc, step, response_content, ti, messages, a_events, nfinal,
                   after_final, ncalls, result_str, history, sessions>>

\* lines 154-157: an exception raised while the stream is consumed
AgentStreamRaises ==
    /\ a_pc = "stream"
    /\ AgentGenerateFails
    /\ UNCHANGED <<step, response_content, tool_calls_buffer, current_tool_index,
                   frags, nchunks, ti, messages, ncalls, result_str, history, sessions>>

\* the history written before the 'final' event is yielded
after_final_stream_saves == "save_user"

\* lines 243-250: after 'final_stream' the 'final' event is yielded, and the
\* history is written after it
after_final_stream == "final"

\* lines 164-177 and 241-243: the stream ends; with tool calls the assistant
\* message is appended, without them 'final_stream' is yielded
AgentStreamEnds ==
    /\ a_pc = "stream"
    /\ IF tool_calls_buffer # <<>>
       THEN /\ messages' = Append(messages,
                 AMessage("assistant", response_content, tool_calls_buffer, <<>>, <<>>, None))
            /\ ti' = 1
            /\ a_pc' = "tools"
            /\ UNCHANGED <<a_events, nfinal, after_final>>
       ELSE /\ Emit(AEvent("final_stream", step, response_content, <<>>, "", None))
            /\ a_pc' = after_final_stream
            /\ UNCHANGED <<messages, ti>>
    /\ UNCHANGED <<step, response_content, tool_calls_buffer, current_tool_index,
                   frags, nchunks, ncalls, result_str, history, sessions>>

\* lines 180-190: the next reconstructed call is announced; after the last
\* one the loop goes to its next iteration
AgentToolUse ==
    /\ a_pc = "tools"
    /\ IF ti <= Len(tool_calls_buffer)
       THEN LET tc == tool_calls_buffer[ti]
            IN  /\ Emit(AEvent("tool_use", step, <<>>, tc.name,
                               parse_args(tc.arguments), None))
                /\ a_pc' = "invoke"
       ELSE /\ a_pc' = "loop"
            /\ UNCHANGED <<a_events, nfinal, after_final>>
    /\ UNCHANGED <<step, response_content, tool_calls_buffer, current_tool_index,
                   frags, nchunks, ti, messages, ncalls, result_str, history, sessions>>

\* the tool message appended without the 'observation' event
ObserveSilently(tc, res) ==
    /\ messages' = Append(messages,
          AMessage("tool", <<>>, <<>>, call_id(tc), tc.name, res))
    /\ ti' = ti + 1
    /\ a_pc' = "tools"
    /\ UNCHANGED <<a_events, nfinal, after_final>>

\* lines 229-237: the observation is yielded and the tool message appended
Observe(tc, res) ==
    /\ Emit(AEvent("observation", step, <<>>, tc.name, "", res))
    /\ messages' = Append(messages,
          AMessage("tool", <<>>, <<>>, call_id(tc), tc.name, res))
    /\ ti' = ti + 1
    /\ a_pc' = "tools"

\* The backend's answer to the Planner's call: a JSON array of n task
\* objects, each depending on the one before
PlanResponse(n) ==
    Outcome(FALSE, TRUE, <<JSON>>,
            JValue("array", "absent",
                   [i \in 1..n |->
                      TaskDef("task", i, IF i = 1 THEN <<>> ELSE <<i - 1>>)]))

\* lines 193-227: create_plan asks the Planner for a graph (plan_graph, kept
\* in order and tasks) and yields plan_created with its tasks; any other
\* name is invoked through _execute_tool_safe
AgentInvoke ==
    /\ a_pc = "invoke"
    /\ LET tc == tool_calls_buffer[ti]
       IN  IF tc.name = <<"create_plan">>
           THEN \E n \in 0..MaxPlan :
                   LET plan_graph == create_plan(PlanResponse(n)).graph
                       plan_len == Len(plan_graph.order)
                   IN  /\ order' = plan_graph.order
                       /\ tasks' = plan_graph.tasks
                       /\ Emit(AEvent("plan_created", plan_len, <<>>, tc.name, "", None))
                       /\ result_str' = Val("str", "plan json", plan_len)
                       /\ a_pc' = "plan_created"
                       /\ UNCHANGED <<messages, ti>>
           ELSE /\ Observe(tc, execute_tool_safe(tc.name))
                /\ UNCHANGED <<result_str, order, tasks>>
    /\ UNCHANGED <<step, response_content, tool_calls_buffer, current_tool_index,
                   frags, nchunks, ncalls, history, sessions>>

\* lines 216-237 after plan_created: the plan is fed back as the observation
\* (plan_graph is not read again)
AgentPlanObserved ==
    /\ a_pc = "plan_created"
    /\ Observe(tool_calls_buffer[ti], result_str)
    /\ result_str' = None
    /\ order' = EmptyGraph.order /\ tasks' = EmptyGraph.tasks
    /\ UNCHANGED <<step, response_content, tool_calls_buffer, current_tool_index,
                   frags, nchunks, ncalls, history, sessions>>

\* line 250: 'final' with the full content
AgentFinal ==
    /\ a_pc = "final"
    /\ Emit(AEvent("final", step, response_content, <<>>, "", None))
    /\ a_pc' = "save_user"
    /\ UNCHANGED <<step, response_content, tool_calls_buffer, current_tool_index,
                   frags, nchunks, ti, messages, ncalls, result_str, history, sessions>>

\* line 253: add_message(chat_id, "user", user_input)
AgentSaveUser ==
    /\ a_pc = "save_user"
    /\ sessions' = add_message(sessions, ChatId, "user", user_input)
    /\ a_pc' = "save_assistant"
    /\ UNCHANGED <<step, response_content, tool_calls_buffer, current_tool_index,
                   frags, nchunks, ti, messages, a_events, nfinal, after_final,
                   ncalls, result_str, history>>

\* lines 254-255: add_message(chat_id, "assistant", response_content); break
AgentSaveAssistant ==
    /\ a_pc = "save_assistant"
    /\ sessions' = add_message(sessions, ChatId, "assistant", response_content)
    /\ a_pc' = "done"
    /\ UNCHANGED <<step, response_content, tool_calls_buffer, current_tool_index,
                   frags, nchunks, ti, messages, a_events, nfinal, after_final,
                   ncalls, result_str, history>>

\* lines 43 and 253-254: _save() raises after the append (the file cannot be
\* written), or the turn's task is cancelled while it waits for the lock; the
\* exception leaves Agent.run
AgentSaveFails ==
    /\ a_pc \in {"save_user", "save_assistant"}
    /\ \/ sessions' = sessions
       \/ sessions' = add_message(sessions, ChatId,
                         IF a_pc = "save_user" THEN "user" ELSE "assistant",
                         IF a_pc = "save_user" THEN user_input ELSE response_content)
    /\ a_pc' = "failed"
    /\ UNCHANGED <<step, response_content, tool_calls_buffer, current_tool_index,
                   frags, nchunks, ti, messages, a_events, nfinal, after_final,
                   ncalls, result_str, history>>

AgentInit ==
    /\ a_pc = "start" /\ step = 0 /\ response_content = <<>>
    /\ tool_calls_buffer = <<>> /\ current_tool_index = -1 /\ frags = <<>>
    /\ nchunks = 0 /\ ti = 1 /\ messages = <<>> /\ a_events = <<>>
    /\ nfinal = 0 /\ after_final = FALSE /\ ncalls = 0 /\ result_str = None
    /\ history = <<>>
    /\ sessions \in {[c \in {} |-> <<>>], [c \in {ChatId} |-> OldHistory]}
    /\ GraphIdle /\ ExecIdle /\ ConcIdle /\ PureIdle /\ ChatIdle

AgentNext ==
    \/ AgentStart /\ UNCHANGED <<graph_vars, exec_vars, conc_vars, pure_vars, chat_vars>>
    \/ AgentLoopHead /\ UNCHANGED <<graph_vars, exec_vars, conc_vars, pure_vars, chat_vars>>
    \/ AgentGenerate /\ UNCHANGED <<graph_vars, exec_vars, conc_vars, pure_vars, chat_vars>>
    \/ AgentErrorChunk /\ UNCHANGED <<graph_vars, exec_vars, conc_vars, pure_vars, chat_vars>>
    \/ AgentContentChunk /\ UNCHANGED <<graph_vars, exec_vars, conc_vars, pure_vars, chat_vars>>
    \/ AgentToolCallChunk /\ UNCHANGED <<graph_vars, exec_vars, conc_vars, pure_vars, chat_vars>>
    \/ AgentStreamRaises /\ UNCHANGED <<graph_vars, exec_vars, conc_vars, pure_vars, chat_vars>>
    \/ AgentStreamEnds /\ UNCHANGED <<graph_vars, exec_vars, conc_vars, pure_vars, chat_vars>>
    \/ AgentToolUse /\ UNCHANGED <<graph_vars, exec_vars, conc_vars, pure_vars, chat_vars>>
    \/ AgentInvoke /\ UNCHANGED <<g_last, exec_vars, conc_vars, pure_vars, chat_vars>>
    \/ AgentPlanObserved /\ UNCHANGED <<g_last, exec_vars, conc_vars, pure_vars, chat_vars>>
    \/ AgentFinal /\ UNCHANGED <<graph_vars, exec_vars, conc_vars, pure_vars, chat_vars>>
    \/ AgentSaveUser /\ UNCHANGED <<graph_vars, exec_vars, conc_vars, pure_vars, chat_vars>>
    \/ AgentSaveAssistant /\ UNCHANGED <<graph_vars, exec_vars, conc_vars, pure_vars, chat_vars>>
    \/ AgentSaveFails /\ UNCHANGED <<graph_vars, exec_vars, conc_vars, pure_vars, chat_vars>>

SpecAgent == AgentInit /\ [][AgentNext]_vars

\* The turn with its generator driven to the end: the caller's `async for`
\* asks for the next event until the generator returns or raises, every
\* stream ends and every tool invocation returns.
FairSpecAgent == SpecAgent /\ WF_vars(AgentNext)

\* The turn in its environment: besides the steps of Agent.run, the caller
\* may stop consuming the event stream, and the backend may never answer.
\*
\* bot.py line 63: the caller leaves its `async for` before the 'final' event
\* (it disconnects, times out or fails).  The generator is left suspended
\* where it is, or closed there (GeneratorExit and CancelledError are not
\* caught by `except Exception`): none of its statements runs any more and
\* its frame is dropped.
AgentConsumerStops ==
    /\ a_pc \in {"loop", "generate", "stream", "tools", "invoke", "plan_created",
                 "final", "save_user", "save_assistant"}
    /\ nfinal = 0
    /\ a_pc' = "stopped"
    /\ response_content' = <<>> /\ tool_calls_buffer' = <<>>
    /\ current_tool_index' = -1 /\ frags' = <<>> /\ nchunks' = 0 /\ ti' = 1
    /\ messages' = <<>> /\ a_events' = <<>> /\ result_str' = None
    /\ order' = EmptyGraph.order /\ tasks' = EmptyGraph.tasks
    /\ UNCHANGED <<step, nfinal, after_final, ncalls, history, sessions>>

\* lines 115 and 117: `await self.llm.generate(...)` never returns, or the
\* stream never delivers its next chunk; neither await carries a timeout, so
\* the generator stays suspended in it
AgentBackendHangs ==
    /\ a_pc \in {"generate", "stream"}
    /\ a_pc' = "suspended"
    /\ UNCHANGED <<step, response_content, tool_calls_buffer, current_tool_index,
                   frags, nchunks, ti, messages, a_events, nfinal, after_final,
                   ncalls, result_str, history, sessions, order, tasks>>

TurnNext ==
    \/ AgentNext
    \/ AgentConsumerStops /\ UNCHANGED <<g_last, exec_vars, conc_vars, pure_vars, chat_vars>>
    \/ AgentBackendHangs /\ UNCHANGED <<g_last, exec_vars, conc_vars, pure_vars, chat_vars>>

SpecTurn == AgentInit /\ [][TurnNext]_vars

\* The caller, while it consumes, asks for the next event until the
\* generator returns or raises; every stream that answers ends and every
\* tool invocation returns.
FairSpecTurn == SpecTurn /\ WF_vars(TurnNext)

\* The turn with LLMService between the Agent and the provider: llm.generate
\* is LLMService.generate, which does not raise when the provider's create
\* call fails but returns error_gen.
\*
\* lines 115-118 with llm.py lines 34-94
AgentGenerateLLM ==
    /\ a_pc = "generate"
    /\ ncalls' = ncalls + 1
    /\ current_tool_index' = -1
    /\ \E create_raises \in BOOLEAN :
          LET stream == generate(Request("deepseek", TRUE, create_raises, 1, <<>>))
          IN  a_pc' = IF stream.kind = "error_gen" THEN "error_gen" ELSE "stream"
    /\ UNCHANGED <<step, response_content, tool_calls_buffer, frags, nchunks, ti,
                   messages, a_events, nfinal, after_final, result_str, history,
                   sessions>>

\* lines 120-133 for the one chunk of error_gen: ErrorChunk is an object with
\* choices, not a str, and its delta carries the sentinel as content
AgentErrorDelta ==
    /\ a_pc = "error_gen"
    /\ nchunks' = nchunks + 1
    /\ response_content' = response_content \o <<ErrorSentinel>>
    /\ Emit(AEvent("thinking", step, response_content', <<>>, "", None))
    /\ a_pc' = "error_gen_end"
    /\ UNCHANGED <<step, tool_calls_buffer, current_tool_index, frags, ti,
                   messages, ncalls, result_str, history, sessions>>

\* lines 164 and 241-243 when error_gen has ended: no call was reconstructed
AgentErrorGenEnds ==
    /\ a_pc = "error_gen_end"
    /\ Emit(AEvent("final_stream", step, response_content, <<>>, "", None))
    /\ a_pc' = after_final_stream
    /\ UNCHANGED <<step, response_content, tool_calls_buffer, current_tool_index,
                   frags, nchunks, ti, messages, ncalls, result_str, history,
                   sessions>>

BackendNext ==
    \/ AgentStart /\ UNCHANGED <<graph_vars, exec_vars, conc_vars, pure_vars, chat_vars>>
    \/ AgentLoopHead /\ UNCHANGED <<graph_vars, exec_vars, conc_vars, pure_vars, chat_vars>>
    \/ AgentGenerateLLM /\ UNCHANGED <<graph_vars, exec_vars, conc_vars, pure_vars, chat_vars>>
    \/ AgentErrorDelta /\ UNCHANGED <<graph_vars, exec_vars, conc_vars, pure_vars, chat_vars>>
    \/ AgentErrorGenEnds /\ UNCHANGED <<graph_vars, exec_vars, conc_vars, pure_vars, chat_vars>>
    \/ AgentContentChunk /\ UNCHANGED <<graph_vars, exec_vars, conc_vars, pure_vars, chat_vars>>
    \/ AgentToolCallChunk /\ UNCHANGED <<graph_vars, exec_vars, conc_vars, pure_vars, chat_vars>>
    \/ AgentStreamRaises /\ UNCHANGED <<graph_vars, exec_vars, conc_vars, pure_vars, chat_vars>>
    \/ AgentStreamEnds /\ UNCHANGED <<graph_vars, exec_vars, conc_vars, pure_vars, chat_vars>>
    \/ AgentToolUse /\ UNCHANGED <<graph_vars, exec_vars, conc_vars, pure_vars, chat_vars>>
    \/ AgentInvoke /\ UNCHANGED <<g_last, exec_vars, conc_vars, pure_vars, chat_vars>>
    \/ AgentPlanObserved /\ UNCHANGED <<g_last, exec_vars, conc_vars, pure_vars, chat_vars>>
    \/ AgentFinal /\ UNCHANGED <<graph_vars, exec_vars, conc_vars, pure_vars, chat_vars>>
    \/ AgentSaveUser /\ UNCHANGED <<graph_vars, exec_vars, conc_vars, pure_vars, chat_vars>>
    \/ AgentSaveAssistant /\ UNCHANGED <<graph_vars, exec_vars, conc_vars, pure_vars, chat_vars>>

SpecBackend == AgentInit /\ [][BackendNext]_vars

(***************************************************************************)
(* Properties of TaskGraph and Executor                                    *)
(***************************************************************************)
Last(s) == s[Len(s)]
EventsWith(evs, S) == {i \in 1..Len(evs) : evs[i].status \in S}
DepSet(g, id) == SeqToSet(g.tasks[id].dependencies)

\* The ready tasks as the specification defines them
ReadySpec(g) ==
    {id \in DOMAIN g.tasks :
        /\ g.tasks[id].status = PENDING
        /\ \A d \in DepSet(g, id) : HasTask(g, d) /\ g.tasks[d].status = COMPLETED}

\* C5: get_ready_tasks() returns exactly the Pending tasks whose every
\* dependency names a task of the graph that is Completed, each once.
C5_ReadyExactly ==
    g_last = "get_ready_tasks" =>
        /\ SeqToSet(ready_tasks) = ReadySpec(Graph)
        /\ Len(ready_tasks) = Cardinality(ReadySpec(Graph))

\* a call that returned a task with a Completed dependency while the other
\* task of the graph was left out
C5_Witness ==
    /\ g_last = "get_ready_tasks"
    /\ Len(ready_tasks) = 1
    /\ tasks[ready_tasks[1]].dependencies # <<>>
    /\ Cardinality(DOMAIN tasks) = 2

\* C6: a task is started only when every dependency is already Completed:
\* its task_start follows the task_complete of each dependency, and a task
\* that has left Pending has all its dependencies in the graph and Completed.
C6_StartAfterDeps ==
    /\ \A i \in EventsWith(e_events, {"task_start"}) :
          \A d \in DepSet(Graph, e_events[i].task) :
             \E j \in 1..(i - 1) :
                e_events[j].status = "task_complete" /\ e_events[j].task = d
    /\ \A id \in DOMAIN tasks :
          tasks[id].status # PENDING =>
             \A d \in DepSet(Graph, id) : HasTask(Graph, d) /\ tasks[d].status = COMPLETED

\* a task with a dependency has been started
C6_Witness ==
    \E i \in EventsWith(e_events, {"task_start"}) :
        tasks[e_events[i].task].dependencies # <<>>

\* the tools whose invocation fails: the function raises, or the registry
\* reports the name as not registered
FailingTools == {"boom", "afail", "nope"}

\* C7: a task whose tool invocation failed is marked Failed and announced
\* with task_failed, never Completed.
C7_FailedInvocationIsFailed ==
    \A id \in DOMAIN tasks :
        (tasks[id].tool \in FailingTools /\ tasks[id].status \notin {PENDING, RUNNING}) =>
            /\ tasks[id].status = FAILED
            /\ \E i \in EventsWith(e_events, {"task_failed"}) : e_events[i].task = id

DepsIn(g, id) == DepSet(g, id) \cap DOMAIN g.tasks

\* the tasks reachable along dependency edges from the tasks of `front`
RECURSIVE ReachFrom(_, _, _)
ReachFrom(g, seen, front) ==
    IF front = {} THEN seen
    ELSE LET next == UNION {DepsIn(g, x) : x \in front}
         IN  ReachFrom(g, seen \cup front, next \ (seen \cup front))

OnCycle(g, id) == id \in ReachFrom(g, {}, DepsIn(g, id))
HasCycle(g) == \E id \in DOMAIN g.tasks : OnCycle(g, id)

\* C8: for a graph with a dependency cycle, is_complete() never holds, no
\* task on the cycle is started, and the run ends within the iteration cap
\* with the stall error event, not with plan_complete.
C8_CycleStalls ==
    HasCycle(Graph) =>
        /\ ~is_complete(Graph)
        /\ \A id \in DOMAIN tasks : OnCycle(Graph, id) => tasks[id].status = PENDING
        /\ loop_count <= max_loops
        /\ e_pc = "done" => Last(e_events).status = "error"

TerminalEvents == {"error", "plan_complete"}

\* C9: the run terminates after at most max_loops iterations, and its last
\* event is the one terminal event of the run: the stall error or
\* plan_complete, never both and never neither.
C9_TerminatesWithOneTerminalEvent ==
    /\ [](/\ loop_count <= max_loops
          /\ e_pc # "done" => EventsWith(e_events, TerminalEvents) = {}
          /\ e_pc = "done" => EventsWith(e_events, TerminalEvents) = {Len(e_events)})
    /\ <>(e_pc = "done")

\* a run over a graph with tasks that ended with each of the terminal events
C9_Witness ==
    /\ e_pc = "done"
    /\ loop_count = max_loops
    /\ Last(e_events).status = "plan_complete"

\* C10: when the run ends with plan_complete after at least one task
\* completed, the aggregate is the result of the task whose task_complete
\* event was emitted last (the value stored on that task; the event carried
\* its text form).
C10_AggregateIsLastCompleted ==
    (e_pc = "done" /\ Last(e_events).status = "plan_complete"
        /\ EventsWith(e_events, {"task_complete"}) # {}) =>
        LET C == EventsWith(e_events, {"task_complete"})
            last == CHOOSE i \in C : \A j \in C : j <= i
        IN  /\ Last(e_events).result = tasks[e_events[last].task].result
            /\ Str(Last(e_events).result) = e_events[last].result

\* a finished plan in which two tasks completed
C10_Witness ==
    /\ e_pc = "done" /\ Last(e_events).status = "plan_complete"
    /\ Cardinality(EventsWith(e_events, {"task_complete"})) = 2

\* C18: a Failed task stays Failed: mark_completed on it does not make it
\* Completed, and no other operation changes its status.
C18_FailedIsNotOverridden ==
    [][\A id \in DOMAIN tasks :
          tasks[id].status = FAILED => tasks'[id].status = FAILED]_vars

\* C19: is_complete() returns true exactly when no task is Pending, Running
\* or Failed, that is when every task is Completed; it is true of the empty
\* graph.
C19_CompleteIffAllCompleted ==
    g_last \in {"is_complete: True", "is_complete: False"} =>
        /\ (g_last = "is_complete: True") <=>
              {id \in DOMAIN tasks :
                  tasks[id].status \in {PENDING, RUNNING, FAILED}} = {}
        /\ DOMAIN tasks = {} => g_last = "is_complete: True"

\* is_complete() returned false for a graph whose tasks are all terminal,
\* one of them Failed
C19_Witness ==
    /\ g_last = "is_complete: False"
    /\ Cardinality(DOMAIN tasks) = 2
    /\ \E a, b \in DOMAIN tasks :
          tasks[a].status = FAILED /\ tasks[b].status = COMPLETED

\* C11: the aggregate of a finished run is the sentinel 'No tasks executed.'
\* exactly when no task was started during the run.
C11_SentinelIffNothingStarted ==
    (e_pc = "done" /\ Last(e_events).status = "plan_complete") =>
        (Last(e_events).result = NoTasksExecuted
            <=> EventsWith(e_events, {"task_start"}) = {})

EventsOfTask(S, id) == {i \in EventsWith(e_events, S) : e_events[i].task = id}

\* the status changes a run may make to a task
StatusMoves == {<<PENDING, RUNNING>>, <<RUNNING, COMPLETED>>, <<RUNNING, FAILED>>}

\* C12: in a run each task is started (and its tool invoked) at most once and
\* receives at most one terminal mark; its status only moves Pending ->
\* Running -> Completed or Failed, and never leaves Completed or Failed.
C12_AtMostOnce ==
    /\ [](\A id \in DOMAIN tasks :
            /\ Cardinality(EventsOfTask({"task_start"}, id)) <= 1
            /\ Cardinality(EventsOfTask({"task_complete", "task_failed"}, id)) <= 1
            /\ tasks[id].status \in {COMPLETED, FAILED} =>
                  Cardinality(EventsOfTask({"task_complete", "task_failed"}, id)) = 1)
    /\ [][\A id \in DOMAIN tasks :
            tasks'[id].status # tasks[id].status =>
                <<tasks[id].status, tasks'[id].status>> \in StatusMoves]_vars

\* a finished run in which one task completed and another failed
C12_Witness ==
    /\ e_pc = "done"
    /\ \E a, b \in DOMAIN tasks :
          tasks[a].status = COMPLETED /\ tasks[b].status = FAILED

\* the tasks whose every dependency is a Completed task of the graph: they
\* depend on no failed and on no never-ready task
Unblocked(g) ==
    {id \in DOMAIN g.tasks :
        \A d \in DepSet(g, id) : HasTask(g, d) /\ g.tasks[d].status = COMPLETED}

\* C29: the failure of a task does not end the run: when the run ends, every
\* task that depends on no failed and on no never-ready task has been started
\* and is Completed or Failed.
C29_IndependentTasksRun ==
    e_pc = "done" =>
        \A id \in Unblocked(Graph) :
            /\ tasks[id].status \in {COMPLETED, FAILED}
            /\ \E i \in EventsWith(e_events, {"task_start"}) : e_events[i].task = id

\* the same for the graphs the iteration cap does not cut
C29_WithinCap ==
    (e_pc = "done" /\ Len(order) <= max_loops) =>
        \A id \in Unblocked(Graph) :
            /\ tasks[id].status \in {COMPLETED, FAILED}
            /\ \E i \in EventsWith(e_events, {"task_start"}) : e_events[i].task = id

(***************************************************************************)
(* Properties of concurrent turns and /clear commands on several chats     *)
(***************************************************************************)
\* the chat whose turn or /clear caller p steps in
ActingChat(p) ==
    IF turns[p].pc = "idle" THEN turns'[p].chat_id ELSE turns[p].chat_id

\* C21: a turn for chat A never modifies the persisted history of another
\* chat B, and A's working conversation holds no message of B's history,
\* however the steps of concurrent turns interleave.
C21_ChatIsolation ==
    /\ [](\A p \in Callers :
             turns[p].pc # "idle" =>
                \A i \in 2..Len(turns[p].messages) :
                   turns[p].messages[i].content[1] = ChatOf(turns[p].chat_id))
    /\ [][\A p \in Callers, B \in ChatIds :
             (ChatStep(p) /\ ChatOf(B) # ChatOf(ActingChat(p))) =>
                 get_history(sessions', cid(B)) = get_history(sessions, cid(B))]_vars

\* a turn of one chat is being saved while a turn of another chat, started
\* on a persisted history, is under way
C21_Witness ==
    \E p, q \in Callers :
        /\ turns[p].pc = "save_assistant" /\ turns[q].pc = "loop"
        /\ ChatOf(turns[p].chat_id) # ChatOf(turns[q].chat_id)
        /\ turns[q].history.returned # <<>>

\* C24: a completed turn adds exactly two messages to the persisted
\* history, the user message and then the final answer; the assistant
\* tool-call messages and the tool messages of its iterations are never
\* persisted; and no step of the turn changes the list get_history returned
\* to it.
C24_TurnAddsTwoAndKeepsList ==
    /\ [](\A key \in DOMAIN sessions :
             \A i \in 1..Len(sessions[key]) :
                /\ sessions[key][i].role \in {"user", "assistant"}
                /\ Last(sessions[key][i].content) \in {"question", "answer"})
    /\ [][\A p \in Callers :
             (ChatStep(p) /\ turns[p].pc # "idle") =>
                /\ ListOf(sessions', turns[p].history) = ListOf(sessions, turns[p].history)
                /\ LET key == cid(turns[p].chat_id)
                   IN  CASE turns[p].pc = "save_user" ->
                              sessions' = add_message(sessions, key, "user",
                                                      turns[p].user_input)
                         [] turns[p].pc = "save_assistant" ->
                              sessions' = add_message(sessions, key, "assistant",
                                                      turns[p].response_content)
                         [] OTHER -> sessions' = sessions]_vars

\* the same without the last part: what a turn persists is its user message
\* and its final answer, one message per add_message call
C24_TurnAddsTwo ==
    /\ [](\A key \in DOMAIN sessions :
             \A i \in 1..Len(sessions[key]) :
                /\ sessions[key][i].role \in {"user", "assistant"}
                /\ Last(sessions[key][i].content) \in {"question", "answer"})
    /\ [][\A p \in Callers :
             (ChatStep(p) /\ turns[p].pc # "idle") =>
                LET key == cid(turns[p].chat_id)
                    old == get_history(sessions, key)
                IN  CASE turns[p].pc = "save_user" ->
                           get_history(sessions', key) =
                              Append(old, Message("user", turns[p].user_input))
                      [] turns[p].pc = "save_assistant" ->
                           get_history(sessions', key) =
                              Append(old, Message("assistant", turns[p].response_content))
                      [] OTHER -> sessions' = sessions]_vars

\* C28: for each chat id, get_history returns exactly the messages added
\* with add_message for that chat since its last clear, in call order and
\* with role and content unchanged; for a chat with no messages it returns
\* the empty list.
C28_HistoryIsAddedSinceClear ==
    \A c \in ChatIds : get_history(sessions, cid(c)) = added[cid(c)]

\* a cleared chat, empty, beside a chat with the two messages of a turn
C28_Witness ==
    \E k1, k2 \in DOMAIN sessions :
        /\ sessions[k1] = <<>>
        /\ Len(sessions[k2]) = 2 /\ sessions[k2][1].content[2] # 0

(***************************************************************************)
(* Properties of Agent.run                                                 *)
(***************************************************************************)
\* C1: a turn whose backend calls and tool invocations all return has
\* yielded a 'final' event when its event stream ends.
C1_FinalBeforeEnd == a_pc = "done" => nfinal >= 1

\* C2: at most one 'final' event is yielded in a turn and no event follows
\* it: once yielded it is the last event and the loop is left.
C2_FinalIsLast ==
    /\ nfinal <= 1
    /\ ~after_final
    /\ nfinal = 1 =>
          /\ EventsWith(a_events, {"final"}) = {Len(a_events)}
          /\ a_pc \in {"done", "save_user", "save_assistant", "failed"}

\* a turn that used tools and then ended with its final answer persisted
C2_Witness ==
    /\ a_pc = "done" /\ nfinal = 1 /\ step = 2
    /\ Last(a_events).status = "final"
    /\ Len(get_history(sessions, ChatId)) >= 2

\* what the turn has appended to the chat's history
AddedByTurn ==
    LET h == get_history(sessions, ChatId)
    IN  SubSeq(h, Len(history) + 1, Len(h))

\* C3: the chat's history holds the turn's user message and final answer
\* either both, adjacent and in the order (user, assistant), or neither.
C3_AtomicPair ==
    a_pc # "start" =>
        \/ AddedByTurn = <<>>
        \/ AddedByTurn = <<Message("user", user_input),
                           Message("assistant", response_content)>>

\* the indices of the fragments, in the order of their first appearance
RECURSIVE FirstIndices(_, _)
FirstIndices(fr, seen) ==
    IF fr = <<>> THEN <<>>
    ELSE IF Head(fr).index \in seen THEN FirstIndices(Tail(fr), seen)
    ELSE <<Head(fr).index>> \o FirstIndices(Tail(fr), seen \cup {Head(fr).index})

\* the name parts, and the argument parts, of the fragments of index i,
\* concatenated in arrival order
RECURSIVE NameOfIndex(_, _)
NameOfIndex(fr, i) ==
    IF fr = <<>> THEN <<>>
    ELSE (IF Head(fr).index = i THEN Head(fr).name ELSE <<>>) \o NameOfIndex(Tail(fr), i)

RECURSIVE ArgumentsOfIndex(_, _)
ArgumentsOfIndex(fr, i) ==
    IF fr = <<>> THEN <<>>
    ELSE (IF Head(fr).index = i THEN Head(fr).arguments ELSE <<>>)
         \o ArgumentsOfIndex(Tail(fr), i)

ExpectedCalls(fr) ==
    LET fi == FirstIndices(fr, {})
    IN  [k \in 1..Len(fi) |->
           [name |-> NameOfIndex(fr, fi[k]), arguments |-> ArgumentsOfIndex(fr, fi[k])]]

ReconstructedCalls(buf) ==
    [k \in 1..Len(buf) |-> [name |-> buf[k].name, arguments |-> buf[k].arguments]]

\* C4: whatever the arrival order of the fragments of a response, the
\* accumulator holds one call per distinct index, whose name and argument
\* text are the concatenations of the parts carrying that index; and it is
\* empty when a model turn starts.
C4_Reconstruction ==
    /\ a_pc \in {"stream", "tools", "invoke", "plan_created"} =>
          ReconstructedCalls(tool_calls_buffer) = ExpectedCalls(frags)
    /\ a_pc = "generate" => tool_calls_buffer = <<>>

\* C13: a create_plan call is not dispatched to the tool registry: the
\* Planner's graph is run by the Executor, so that when the result is
\* appended as the tool-role message an 'executing' event has followed
\* plan_created and no task of the plan is Pending any more.
C13_PlanIsExecuted ==
    [][(a_pc = "plan_created" /\ a_pc' = "tools") =>
          /\ Last(messages').role = "tool"
          /\ Last(messages').name = <<"create_plan">>
          /\ Last(messages').result.src # "notfound"
          /\ \E i, j \in 1..Len(a_events) :
                /\ i < j
                /\ a_events[i].status = "plan_created"
                /\ a_events[j].status = "executing"
          /\ \A id \in DOMAIN tasks : tasks[id].status # PENDING]_vars

\* C14: an empty plan is not announced as a created plan: no plan_created
\* event is yielded for a graph of zero tasks, and no observation of a
\* zero-step plan is fed back to the model.
C14_EmptyPlanIsNoPlan ==
    /\ \A i \in EventsWith(a_events, {"plan_created"}) : a_events[i].n > 0
    /\ \A i \in 1..Len(messages) :
          messages[i].role = "tool" =>
              ~(messages[i].result.src = "plan json" /\ messages[i].result.id = 0)

\* The measure of what is left of a turn: the iterations the loop test
\* still allows, then the position inside the iteration (the chunks the
\* stream can still deliver, the reconstructed calls not yet handled).
IterationWeight == 15 + 4 * MaxChunks
PhaseRank ==
    CASE a_pc = "start"          -> 6
      [] a_pc = "generate"       -> 14 + 4 * MaxChunks
      [] a_pc = "stream"         -> 13 + 3 * MaxChunks + (MaxChunks - nchunks)
      [] a_pc = "tools"          -> 12 + 3 * (Len(tool_calls_buffer) - ti + 1)
      [] a_pc = "invoke"         -> 11 + 3 * (Len(tool_calls_buffer) - ti + 1)
      [] a_pc = "plan_created"   -> 10 + 3 * (Len(tool_calls_buffer) - ti + 1)
      [] a_pc = "loop"           -> 5
      [] a_pc = "final"          -> 4
      [] a_pc = "save_user"      -> 3
      [] a_pc = "save_assistant" -> 2
      [] OTHER                   -> 0
TurnRank == (max_steps - step) * IterationWeight + PhaseRank

C22_Terminates == <>(a_pc \in {"done", "failed"})

\* The statuses of the events yielded since the current iteration began, and
\* those that are not 'thinking'
Statuses(evs) == [i \in 1..Len(evs) |-> evs[i].status]
NotThinking(evs) == SelectSeq(Statuses(evs), LAMBDA s : s # "thinking")
ThinkingFirst(evs) ==
    /\ evs # <<>> /\ evs[1].status = "thinking"
    /\ \A i, j \in 1..Len(evs) :
          (i < j /\ evs[j].status = "thinking") => evs[i].status = "thinking"

\* A turn that uses exactly one tool and then answers has two iterations:
\* the first ends (a_pc = "loop", step = 1) with its single reconstructed
\* call handled, the second ends the turn without a call, so that the for
\* loop over tool_calls_buffer last ran in the first iteration (ti = 2).
OneToolIterationEnds == a_pc = "loop" /\ step = 1 /\ Len(tool_calls_buffer) = 1
AnswerAfterOneTool == a_pc = "done" /\ step = 2 /\ ti = 2 /\ nfinal = 1

FailingCall(tc) ==
    /\ tc.name # <<"create_plan">>
    /\ \/ tool_of(tc.name) \notin registered
       \/ tool_func(tool_of(tc.name), 0).raises
ErrorText(v) == v.k = "str" /\ v.src \in {"notfound", "Error", "execerr"}

\* C30: a tool call that names an unregistered tool, or whose invocation
\* raises, does not end the turn: an 'observation' event with the error text
\* is yielded and a tool-role message with that text and the call's id is
\* appended, the remaining calls of the response are handled, and the loop
\* comes to its next iteration with no 'final' event yielded.
C30_FailedToolIsObserved ==
    (a_pc \in {"tools", "invoke", "plan_created", "loop"} /\ tool_calls_buffer # <<>>) =>
        /\ nfinal = 0
        /\ Len(messages) = ti
        /\ a_pc = "loop" => ti = Len(tool_calls_buffer) + 1
        /\ \A i \in 1..(ti - 1) :
              LET tc == tool_calls_buffer[i]
                  m == messages[i + 1]
              IN  FailingCall(tc) =>
                     /\ m.role = "tool" /\ m.tool_call_id = call_id(tc)
                     /\ m.name = tc.name /\ ErrorText(m.result)
                     /\ \E k \in 1..Len(a_events) :
                           /\ a_events[k].status = "observation"
                           /\ a_events[k].name = tc.name
                           /\ a_events[k].result = m.result

\* the first of two calls raised, the second was handled after it and the
\* loop has come to its next iteration
C30_Witness ==
    /\ a_pc = "loop" /\ Len(tool_calls_buffer) = 2
    /\ tool_calls_buffer[1].name = <<"afail">>
    /\ messages[2].result.src = "Error"
    /\ messages[3].role = "tool" /\ messages[3].result.src = "tool"

\* a call naming no registered tool has been observed
C30_UnregisteredObserved ==
    /\ a_pc = "loop" /\ tool_calls_buffer # <<>>
    /\ tool_of(tool_calls_buffer[1].name) \notin registered
    /\ tool_calls_buffer[1].name # <<"create_plan">>
    /\ messages[2].result.src = "notfound"

(***************************************************************************)
(* Properties of LLMService.generate                                       *)
(***************************************************************************)
\* the provider fails within what the consumer has asked for
ProviderFailed ==
    \/ f_in.create_raises
    \/ ~f_in.stream /\ f_in.choices = 0
    \/ \E i \in 1..f_out.pos : f_in.items[i] = "raise"

\* C27: generate never raises, in either mode: a failure of the provider is
\* delivered as the sentinel 'Error generating response: ...' (an error
\* message object without streaming, an error delta with streaming), also
\* when the failure occurs while the returned stream is being consumed.
C27_FailureIsSentinel ==
    f_pc # "call" =>
        /\ ~f_out.raised
        /\ f_pc # "raised"
        /\ (ProviderFailed /\ f_pc \in {"returned", "consumed"}) =>
              /\ f_out.delivered # <<>>
              /\ Last(f_out.delivered) = ErrorSentinel

\* the same for the failures inside the try block of generate
C27_CreateFailureIsSentinel ==
    (f_pc \in {"returned", "consumed"}
        /\ (f_in.create_raises \/ (~f_in.stream /\ f_in.choices = 0))) =>
        /\ ~f_out.raised
        /\ f_out.delivered = <<ErrorSentinel>>

\* C25: a backend call that never returns, or a stream that never delivers
\* its next chunk, does not leave the turn waiting for ever: the turn still
\* ends with a 'final' event.
C25_EndsDespiteHang == (a_pc = "suspended") ~> (nfinal >= 1)

\* C26: when the caller stops consuming the event stream before the 'final'
\* event, no further step of the turn runs (no tool is invoked any more) and
\* the chat's persisted history is what it was when the turn loaded it.
C26_StopWritesNothing ==
    a_pc = "stopped" =>
        /\ nfinal = 0
        /\ ~ENABLED TurnNext
        /\ get_history(sessions, ChatId) = history
        /\ AddedByTurn = <<>>

\* the caller stopped in the second iteration of a turn on a chat with
\* history, after a tool had been invoked in the first
C26_Witness ==
    /\ a_pc = "stopped" /\ step = 2 /\ history = OldHistory

(***************************************************************************)
(* Properties of Planner.create_plan                                       *)
(***************************************************************************)
\* the backend failed, or no reading of its content is a JSON array of task
\* objects
NotAPlan(o) ==
    \/ o.raises \/ ~o.has_content
    \/ ~Contains(o.content, JSON)
    \/ o.value.type # "array"
    \/ \E i \in 1..Len(o.value.elems) : o.value.elems[i].kind \notin TaskKinds

\* C17: create_plan returns without raising; when the backend failed or its
\* response is no JSON array of task objects the returned graph has zero
\* tasks and is_complete() holds of it; a returned graph is never a part of
\* the array's tasks.
C17_EmptyGraphOnFailure ==
    f_pc = "returned" =>
        /\ ~f_out.raised
        /\ NotAPlan(f_in) =>
              f_out.graph.order = <<>> /\ DOMAIN f_out.graph.tasks = {}
                  /\ is_complete(f_out.graph)
        /\ f_out.graph.order # <<>> =>
              Cardinality(DOMAIN f_out.graph.tasks) =
                  Cardinality({f_in.value.elems[i].id :
                                  i \in 1..Len(f_in.value.elems)} \ {0})
                  + Cardinality({i \in 1..Len(f_in.value.elems) :
                                    f_in.value.elems[i].id = 0})

\* a fenced array whose first element is a task and whose second lacks
\* 'tool' came back as the empty graph
C17_Witness ==
    /\ f_pc = "returned"
    /\ f_in.content = <<FENCE_JSON, JSON, FENCE>>
    /\ f_in.value.type = "array" /\ Len(f_in.value.elems) = 2
    /\ f_in.value.elems[1].kind = "task" /\ f_in.value.elems[2].kind = "no_tool"
    /\ f_out.graph = EmptyGraph

(***************************************************************************)
(* Properties of DecisionLayer.decide                                      *)
(***************************************************************************)
\* C15: decide returns RESPOND_DIRECTLY when no part of the backend's text
\* is JSON, and when its JSON value has no 'decision' member (an object with
\* other keys only, an array, a number, a string).
C15_RespondDirectlyWithoutDecision ==
    (f_pc = "returned" /\ ~f_in.raises /\ f_in.has_content) =>
        ((~Contains(f_in.content, JSON) \/ f_in.value.decision = "absent") =>
            f_out.value = RespondDirectly)

\* C16: for every backend outcome decide returns without raising, and what
\* it returns is a Decision: an object whose 'decision' is RESPOND_DIRECTLY,
\* USE_TOOL or CREATE_PLAN.
C16_AlwaysValidDecision ==
    f_pc = "returned" =>
        /\ ~f_out.raised
        /\ f_out.value.type = "object"
        /\ f_out.value.decision \in DecisionNames

C35_PlanCompleteMeansAllTerminal ==
    (e_events # <<>> /\ Last(e_events).status = "plan_complete") =>
        all_terminal(Graph)

(***************************************************************************)
(* Further properties of TaskGraph                                         *)
(***************************************************************************)
\* every dependency of task t names a task of the graph that is Completed
DepsCompleted(ts, t) ==
    \A d \in SeqToSet(ts[t].dependencies) :
        d \in DOMAIN ts /\ ts[d].status = COMPLETED

\* C33: mark_completed never shrinks readiness: over a mark_completed(id, r)
\* step, every task other than id whose dependencies were all Completed
\* still has them all Completed, and every other task of the ready set
\* (Pending, dependencies Completed) is still in the ready set.
C33_MarkCompletedKeepsReadiness ==
    [][g_last' = "mutate" =>
         \A id \in GraphIds :
            tasks' = mark_completed(Graph, id, Val("str", "tool", id)).tasks =>
               \A t \in DOMAIN tasks \ {id} :
                  DepsCompleted(tasks, t) =>
                     /\ t \in DOMAIN tasks'
                     /\ DepsCompleted(tasks', t)
                     /\ tasks[t].status = PENDING => tasks'[t].status = PENDING]_vars

\* a Pending task is in the ready set after the task it depends on was marked
\* Completed
C33_Witness ==
    /\ g_last = "mutate"
    /\ \E t, dep \in DOMAIN tasks :
          /\ t # dep
          /\ tasks[t].dependencies = <<dep>>
          /\ tasks[dep].status = COMPLETED
          /\ t \in ReadySpec(Graph)

\* the dependency ids of task t that name no task of the graph
Dangling(g, t) == DepSet(g, t) \ DOMAIN g.tasks

\* C34: add_task accepts a task that lists a dependency id absent from the
\* graph, and get_ready_tasks() never returns such a task, whatever the
\* statuses of the other tasks, while no task with that id is in the graph.
C34_DanglingNeverReady ==
    g_last = "get_ready_tasks" =>
        \A i \in 1..Len(ready_tasks) : Dangling(Graph, ready_tasks[i]) = {}

\* get_ready_tasks() returned no task for a graph whose one task is Pending
\* and depends only on an id that names no task
C34_Witness ==
    /\ g_last = "get_ready_tasks"
    /\ ready_tasks = <<>>
    /\ \E t \in DOMAIN tasks :
          /\ tasks[t].status = PENDING
          /\ tasks[t].dependencies # <<>>
          /\ DepSet(Graph, t) = Dangling(Graph, t)

\* an Executor run ended with the stall error over a task whose dependencies
\* name no task
C34_ExecutorWitness ==
    /\ e_pc = "done"
    /\ \E t \in DOMAIN tasks :
          /\ tasks[t].dependencies # <<>>
          /\ DepSet(Graph, t) = Dangling(Graph, t)
    /\ Last(e_events).status = "error"

\* C34 for the Executor: a task with a dependency id absent from the graph
\* is never in the ready list of an iteration, is never started and stays
\* Pending to the end of the run.
C34_DanglingNeverStarted ==
    \A t \in DOMAIN tasks :
        Dangling(Graph, t) # {} =>
            /\ tasks[t].status = PENDING
            /\ \A i \in 1..Len(ready_tasks) : ready_tasks[i] # t
            /\ \A i \in EventsWith(e_events, {"task_start"}) : e_events[i].task # t

(***************************************************************************)
(* Further properties of Planner.create_plan                               *)
(***************************************************************************)
\* the backend's content is one JSON array, bare or inside a code fence, and
\* every element of the array is an object with 'tool'
IsTaskArray(o) ==
    /\ ~o.raises /\ o.has_content
    /\ o.content \in {<<JSON>>, <<FENCE_JSON, JSON, FENCE>>, <<FENCE, JSON, FENCE>>}
    /\ o.value.type = "array"
    /\ \A i \in 1..Len(o.value.elems) : o.value.elems[i].kind \in TaskKinds

SuppliedIds(el) == {el[i].id : i \in 1..Len(el)} \ {0}
WithoutId(el) == {i \in 1..Len(el) : el[i].id = 0}
\* the last element of the array that supplies id
LastWith(el, id) ==
    CHOOSE i \in 1..Len(el) :
        el[i].id = id /\ \A j \in (i + 1)..Len(el) : el[j].id # id

\* task t of the graph is Pending and has the args and dependencies of the
\* element task_def, the empty mapping and the empty list where the element
\* has none
MadeFrom(t, task_def) ==
    /\ t.status = PENDING /\ t.tool = "get_time"
    /\ t.args = IF task_def.kind = "tool_only" THEN EmptyArgs ELSE SuppliedArgs
    /\ t.dependencies =
          IF task_def.kind = "tool_only" THEN <<>> ELSE task_def.dependencies

\* C32 as stated: for a response that is a JSON array of n task objects each
\* naming a tool, the returned graph has exactly n tasks, all Pending, each
\* element's task under the id the element supplies (a generated id when it
\* supplies none), with the element's args and dependencies or their
\* defaults.
C32_ExactlyNTasks ==
    (f_pc = "returned" /\ IsTaskArray(f_in)) =>
        LET el == f_in.value.elems
            g  == f_out.graph
        IN  /\ Cardinality(DOMAIN g.tasks) = Len(el)
            /\ \A i \in 1..Len(el) :
                  el[i].id # 0 =>
                     /\ el[i].id \in DOMAIN g.tasks
                     /\ MadeFrom(g.tasks[el[i].id], el[i])
            /\ \A id \in DOMAIN g.tasks \ SuppliedIds(el) :
                  \E i \in WithoutId(el) : MadeFrom(g.tasks[id], el[i])

\* C32 amended: the returned graph has one task per distinct supplied id,
\* made from the last element that supplies it, and one task under a
\* generated id per element without id; all are Pending, with the element's
\* args and dependencies or their defaults.  It has n tasks when the
\* supplied ids are pairwise distinct.
C32_TaskPerDistinctId ==
    (f_pc = "returned" /\ IsTaskArray(f_in)) =>
        LET el == f_in.value.elems
            g  == f_out.graph
        IN  /\ Cardinality(DOMAIN g.tasks) =
                  Cardinality(SuppliedIds(el)) + Cardinality(WithoutId(el))
            /\ Len(g.order) = Cardinality(DOMAIN g.tasks)
            /\ \A id \in SuppliedIds(el) :
                  /\ id \in DOMAIN g.tasks
                  /\ MadeFrom(g.tasks[id], el[LastWith(el, id)])
            /\ \A id \in DOMAIN g.tasks \ SuppliedIds(el) :
                  \E i \in WithoutId(el) : MadeFrom(g.tasks[id], el[i])

\* a fenced array of an element with 'tool' only and an element with id,
\* args and dependencies came back as a graph of two tasks
C32_Witness ==
    /\ f_pc = "returned" /\ IsTaskArray(f_in)
    /\ f_in.content = <<FENCE_JSON, JSON, FENCE>>
    /\ Len(f_in.value.elems) = 2
    /\ f_in.value.elems[1].kind = "tool_only"
    /\ f_in.value.elems[2].id = 2
    /\ Cardinality(DOMAIN f_out.graph.tasks) = 2
    /\ f_out.graph.tasks[2].dependencies = <<1>>

(***************************************************************************)
(* Properties of Executor.execute_graph                                    *)
(***************************************************************************)
\* C38: execute_graph returns the aggregate the generator reports for the
\* same run: the result of plan_complete (the last completed task's result,
\* or the sentinel 'No tasks executed.' when no task completed), or the stall
\* message.
C38_SameAggregate ==
    f_pc = "returned" => f_out = Last(e_events).result

\* the two agree on the stall message, and on the result of the last
\* completed task when that result is a string
C38_AgreeOnStallAndText ==
    f_pc = "returned" =>
        /\ Last(e_events).status = "error" => f_out = StallMessage
        /\ (Last(e_events).status = "plan_complete"
              /\ Last(e_events).result # NoTasksExecuted) =>
                 f_out = Str(Last(e_events).result)

(***************************************************************************)
(* Further properties of Agent.run: the loop over the reconstructed calls  *)
(***************************************************************************)
\* the tool_use and observation events of the current iteration, in order
ToolEvents(evs) ==
    SelectSeq(evs, LAMBDA e : e.status \in {"tool_use", "observation"})

\* C31: the tool_use and observation events of an iteration alternate, the
\* i-th pair being about the i-th reconstructed call; a call is invoked only
\* after its tool_use (and before its observation), the next call's tool_use
\* comes only after its observation, and when the loop over the calls has
\* ended every call has exactly one tool_use and one observation.
C31_ToolUseInvokeObserve ==
    a_pc \in {"tools", "invoke", "plan_created", "loop"} =>
    LET s == ToolEvents(a_events)
    IN  /\ \A j \in 1..Len(s) :
              /\ s[j].status = IF j % 2 = 1 THEN "tool_use" ELSE "observation"
              /\ (j + 1) \div 2 <= Len(tool_calls_buffer)
              /\ s[j].name = tool_calls_buffer[(j + 1) \div 2].name
        /\ a_pc \in {"invoke", "plan_created"} =>
              /\ Len(s) = 2 * ti - 1
              /\ a_pc = "invoke" => Last(a_events).status = "tool_use"
        /\ a_pc = "tools" =>
              /\ Len(s) = 2 * (ti - 1)
              /\ ti > 1 => Last(a_events).status = "observation"
        /\ a_pc = "loop" => Len(s) = 2 * Len(tool_calls_buffer)

\* an iteration that handled two reconstructed calls
C31_Witness ==
    /\ a_pc = "loop" /\ Len(tool_calls_buffer) = 2
    /\ NotThinking(a_events) =
          <<"tool_use", "observation", "tool_use", "observation">>

\* C39: a reconstructed call whose argument text is not valid JSON is still
\* dispatched: its tool_use event reports the empty mapping, the invocation
\* follows, and its observation carries what the invocation gave, not a
\* parse error.
C39_BadArgsStillDispatched ==
    /\ a_pc = "invoke" =>
          LET tc == tool_calls_buffer[ti]
          IN  tc.arguments # ValidArgs =>
                 /\ Last(a_events).status = "tool_use"
                 /\ Last(a_events).name = tc.name
                 /\ Last(a_events).args = "{}"
    /\ (a_pc = "tools" /\ ti > 1) =>
          LET tc == tool_calls_buffer[ti - 1]
          IN  (tc.arguments # ValidArgs /\ tc.name # <<"create_plan">>) =>
                 /\ Last(a_events).status = "observation"
                 /\ Last(a_events).result = execute_tool_safe(tc.name)
                 /\ messages[Len(messages)].role = "tool"
                 /\ messages[Len(messages)].result = execute_tool_safe(tc.name)

\* a call of the registered tool get_time with half an argument text was
\* announced with empty args and observed with the tool's result
C39_Witness ==
    /\ a_pc = "tools" /\ ti = 2
    /\ tool_calls_buffer[1].name = <<"get_time">>
    /\ tool_calls_buffer[1].arguments = <<"{\"a\":">>
    /\ \E i \in 1..Len(a_events) :
          a_events[i].status = "tool_use" /\ a_events[i].args = "{}"
    /\ Last(a_events).result = Val("str", "tool", 0)

(***************************************************************************)
(* Further properties of Agent.run: what a turn writes to the history      *)
(***************************************************************************)
\* C40: history is written only for a non-empty final answer: whenever the
\* chat's persisted history differs from the one the turn loaded, the final
\* response of the turn has content.
C40_EmptyAnswerNotSaved ==
    (a_pc # "start" /\ get_history(sessions, ChatId) # history) =>
        response_content # <<>>

\* the turn's backend call failed inside LLMService, which delivered its
\* error sentinel
SentinelDelivered == response_content = <<ErrorSentinel>>

\* C36: when the backend fails for a turn, the turn ends with a final event
\* that carries the diagnostic, and nothing is written to the chat's
\* persisted history: the diagnostic is never stored as an assistant message.
C36_DiagnosticNotPersisted ==
    /\ (a_pc = "done" /\ SentinelDelivered) =>
          /\ Last(a_events).status = "final"
          /\ Last(a_events).text = <<ErrorSentinel>>
    /\ SentinelDelivered => get_history(sessions, ChatId) = history
    /\ \A i \in 1..Len(get_history(sessions, ChatId)) :
          get_history(sessions, ChatId)[i].content # <<ErrorSentinel>>

\* the part of C36 about the events: the turn of a failed backend call ends
\* with one final event carrying the diagnostic
C36_FinalCarriesDiagnostic ==
    (a_pc = "done" /\ SentinelDelivered) =>
        /\ nfinal = 1
        /\ Last(a_events).status = "final"
        /\ Last(a_events).text = <<ErrorSentinel>>

\* the iteration's loop over the reconstructed calls has ended and another
\* backend call follows
BeforeNextBackendCall ==
    a_pc = "loop" /\ step >= 1 /\ step_allowed(step) /\ tool_calls_buffer # <<>>

\* C37: at every backend call after the first, the working conversation is
\* well-formed: the assistant message carrying tool_calls is immediately
\* followed by exactly one tool message per call, in the same order, and each
\* tool message's tool_call_id is the id recorded for that call in the
\* assistant message.
C37_ToolMessagesMatchCalls ==
    BeforeNextBackendCall =>
        /\ Len(messages) = 1 + Len(tool_calls_buffer)
        /\ messages[1].role = "assistant"
        /\ messages[1].tool_calls = tool_calls_buffer
        /\ \A k \in 1..Len(tool_calls_buffer) :
              /\ messages[1 + k].role = "tool"
              /\ messages[1 + k].name = messages[1].tool_calls[k].name
              /\ messages[1 + k].tool_call_id = <<messages[1].tool_calls[k].id>>

\* the part of C37 about the shape: one tool message per call, in order,
\* right after the assistant message, with the recorded id when the call has
\* one
C37_OneToolMessagePerCall ==
    BeforeNextBackendCall =>
        /\ Len(messages) = 1 + Len(tool_calls_buffer)
        /\ messages[1].role = "assistant"
        /\ messages[1].tool_calls = tool_calls_buffer
        /\ \A k \in 1..Len(tool_calls_buffer) :
              /\ messages[1 + k].role = "tool"
              /\ messages[1 + k].name = messages[1].tool_calls[k].name
              /\ messages[1].tool_calls[k].id # "" =>
                    messages[1 + k].tool_call_id = <<messages[1].tool_calls[k].id>>

====
